---- MODULE Spec2Model ----
(***************************************************************************)
(* A model of the email-sending abstraction of                             *)
(* International-Combat-Archery-Alliance/email: the shared error taxonomy  *)
(* (error.go), the cloud adapter (awsses/ses.go) and the webmail adapter   *)
(* (gmail/gmail.go).                                                       *)
(*                                                                         *)
(* Go strings are TLA+ strings.  A []string is a slice header              *)
(* (offset, length, capacity) over a backing array; the caller's backing   *)
(* arrays are the cells of one memory, so that two of the caller's slices  *)
(* may alias, and append writes through spare capacity as Go does.         *)
(***************************************************************************)
EXTENDS Naturals, Sequences, FiniteSets, TLC

(***************************************************************************)
(* Bounds of the model.                                                    *)
(***************************************************************************)
\* number of cells of caller memory that back the address slices
MemSize == 2
\* number of words a provider error message is made of, at most
MaxWords == 3
\* number of attachments of an Email, at most
MaxAttachments == 2
\* number of times createMessage is applied to one Email
MaxBuilds == 2
\* number of SendEmail calls made one after the other on one sender
MaxCalls == 2

(***************************************************************************)
(* The state: one SendEmail call at a time, from the call to its return,   *)
(* a mapper applied on its own, the message builder applied on its own,    *)
(* two SendEmail calls that run at the same time on one sender, and calls   *)
(* made one after the other on one sender.                                 *)
(***************************************************************************)
VARIABLES
    pc,        \* "idle", "rpc" (inside the provider call), "returned"
    adapter,   \* "awsses" or "gmail": the sender the call is made on
    email,     \* the Email passed to SendEmail
    mem0,      \* the caller's memory when SendEmail was called
    mem,       \* the caller's memory now
    request,   \* the request handed to the provider
    rpcCount,  \* the number of provider calls made by this SendEmail
    rpcErr,    \* what the last provider call returned (Nil: success)
    result,    \* the error SendEmail returned
    mapErr,    \* the native error given to a mapper applied on its own
    mapOut,    \* the error that mapper returned
    built,     \* the messages createMessage built, applied on its own to email
    heap0,     \* the words of the callers' memory when two concurrent calls began
    heap,      \* the words of that memory now
    calls,     \* the two concurrent calls: position, registers, accesses, outcome
    history    \* the calls that returned, of a sender called again and again

vars == <<pc, adapter, email, mem0, mem, request, rpcCount, rpcErr, result, mapErr, mapOut, built,
          heap0, heap, calls, history>>

callVars == <<pc, adapter, email, mem0, mem, request, rpcCount, rpcErr, result>>

raceVars == <<heap0, heap, calls>>

(***************************************************************************)
(* strings (Go package strings)                                            *)
(***************************************************************************)
UpperChars == "ABCDEFGHIJKLMNOPQRSTUVWXYZ"
LowerChars == "abcdefghijklmnopqrstuvwxyz"

CharAt(s, i) == SubSeq(s, i, i)

\* strings.Contains(s, substr)
Contains(s, substr) ==
    \E i \in 1..(Len(s) + 1) :
        /\ i + Len(substr) - 1 <= Len(s)
        /\ SubSeq(s, i, i + Len(substr) - 1) = substr

\* strings.HasPrefix(s, prefix)
HasPrefix(s, prefix) ==
    /\ Len(prefix) <= Len(s)
    /\ SubSeq(s, 1, Len(prefix)) = prefix

LowerChar(c) ==
    IF \E k \in 1..Len(UpperChars) : CharAt(UpperChars, k) = c
    THEN CharAt(LowerChars, CHOOSE k \in 1..Len(UpperChars) : CharAt(UpperChars, k) = c)
    ELSE c

\* strings.ToLower(s)
RECURSIVE ToLower(_)
ToLower(s) ==
    IF Len(s) = 0 THEN ""
    ELSE LowerChar(CharAt(s, 1)) \o ToLower(SubSeq(s, 2, Len(s)))

\* strings.Join(elems, sep)
RECURSIVE Join(_, _)
Join(elems, sep) ==
    IF Len(elems) = 0 THEN ""
    ELSE IF Len(elems) = 1 THEN elems[1]
    ELSE elems[1] \o sep \o Join(Tail(elems), sep)

\* strconv of a non-negative int, as the %d verb prints it
RECURSIVE Itoa(_)
Itoa(n) ==
    IF n < 10 THEN CharAt("0123456789", n + 1)
    ELSE Itoa(n \div 10) \o CharAt("0123456789", (n % 10) + 1)

\* fmt.Sprintf(format, arg) for a format with one verb (%s, or %d with arg
\* already printed by Itoa): the verb's two characters are replaced by arg
Sprintf(format, arg) ==
    LET i == CHOOSE k \in 1..Len(format) : CharAt(format, k) = "%"
    IN  SubSeq(format, 1, i - 1) \o arg \o SubSeq(format, i + 2, Len(format))

(***************************************************************************)
(* error.go: the taxonomy                                                  *)
(***************************************************************************)
REASON_UNKNOWN           == "UNKNOWN_ERROR"
REASON_RATE_LIMITED      == "RATE_LIMITED"
REASON_INVALID_EMAIL     == "INVALID_EMAIL"
REASON_UNVERIFIED_DOMAIN == "UNVERIFIED_DOMAIN"
REASON_MESSAGE_REJECTED  == "MESSAGE_REJECTED"
REASON_SERVICE_ERROR     == "SERVICE_ERROR"
REASON_VALIDATION_ERROR  == "VALIDATION_ERROR"

ErrorReason ==
    { REASON_UNKNOWN, REASON_RATE_LIMITED, REASON_INVALID_EMAIL,
      REASON_UNVERIFIED_DOMAIN, REASON_MESSAGE_REJECTED, REASON_SERVICE_ERROR,
      REASON_VALIDATION_ERROR }

\* the nil error, and the nil cause
Nil == [type |-> "nil"]

\* *email.Error
newError(reason, message, cause) ==
    [type |-> "*email.Error", Message |-> message, Reason |-> reason, Cause |-> cause]

NewUnknownError(message, cause)          == newError(REASON_UNKNOWN, message, cause)
NewRateLimitedError(message, cause)      == newError(REASON_RATE_LIMITED, message, cause)
NewInvalidEmailError(message, cause)     == newError(REASON_INVALID_EMAIL, message, cause)
NewUnverifiedDomainError(message, cause) == newError(REASON_UNVERIFIED_DOMAIN, message, cause)
NewMessageRejectedError(message, cause)  == newError(REASON_MESSAGE_REJECTED, message, cause)
NewServiceError(message, cause)          == newError(REASON_SERVICE_ERROR, message, cause)
NewValidationError(message, cause)       == newError(REASON_VALIDATION_ERROR, message, cause)

\* (*Error).Unwrap
Unwrap(e) == e.Cause

(***************************************************************************)
(* email.go: the Email value, and the caller's memory                       *)
(***************************************************************************)
\* the address strings that occur in the model
ValidAddr   == "x@y.z"
NoDotAddr   == "a@b"
NoAtAddr    == "invalid-email"
Addrs       == { ValidAddr, NoDotAddr, NoAtAddr }
FromAddrs   == Addrs \cup { "" }

Cells == 1..MemSize
\* the value of a cell that no slice of the Email reaches
FreeCell == ValidAddr

\* a slice header: elements off+1 .. off+len of the memory, capacity cap
NilSlice == [off |-> 0, len |-> 0, cap |-> 0]
SliceHeaders ==
    { s \in [off : 0..MemSize, len : 0..MemSize, cap : 0..MemSize] :
        /\ s.len <= s.cap
        /\ s.off + s.cap <= MemSize
        /\ (s.cap = 0 => s.off = 0) }
\* a slice whose capacity is its length, as a slice literal or s[i:j:j] has
ClippedSlices == { s \in SliceHeaders : s.cap = s.len }

\* the cells a slice header spans, spare capacity included
Span(s) == { s.off + i : i \in 1..s.cap }

\* the elements of a caller slice, read from memory m
Elems(m, s) == [i \in 1..s.len |-> m[s.off + i]]

\* Email values.  ToAddresses ranges over every slice header;
\* the capacity of CCAddresses and BCCAddresses is never read by either
\* adapter, so these range over the clipped headers.
EmailValues ==
    [ FromAddress      : FromAddrs,
      ToAddresses      : SliceHeaders,
      CCAddresses      : ClippedSlices,
      BCCAddresses     : ClippedSlices,
      ReplyToAddresses : { <<>> },
      Subject          : { "", "Test" },
      HTMLBody         : { "", "<p>Hello</p>" },
      TextBody         : { "", "Hello" },
      Attachments      : { <<>> } ]

\* the Emails with at most MemSize recipients
Emails ==
    { e \in EmailValues :
        e.ToAddresses.len + e.CCAddresses.len + e.BCCAddresses.len <= MemSize }

\* the memories that back an Email: cells the Email does not reach are fixed
Memories(e) ==
    { m \in [Cells -> Addrs] :
        \A c \in Cells :
            c \notin (Span(e.ToAddresses) \cup Span(e.CCAddresses) \cup Span(e.BCCAddresses))
                => m[c] = FreeCell }

(***************************************************************************)
(* append (Go builtin) on a slice of caller memory                         *)
(***************************************************************************)
\* A slice value inside the validator: either a header into caller memory
\* (heap = TRUE) or a freshly allocated array known by its elements.
HeapSlice(s)   == [heap |-> TRUE, off |-> s.off, len |-> s.len, cap |-> s.cap, elems |-> <<>>]
FreshSlice(es) == [heap |-> FALSE, off |-> 0, len |-> Len(es), cap |-> 0, elems |-> es]

ElemsOf(m, v) == IF v.heap THEN Elems(m, v) ELSE v.elems

\* append(dst, src...): src is read as a whole (memmove), then written after
\* dst's elements, in place when dst's capacity holds them and into a fresh
\* array otherwise.  The result is the new slice value and the new memory.
GoAppend(m, dst, src) ==
    LET n == Len(src) IN
    IF n = 0 THEN [slice |-> dst, mem |-> m]
    ELSE IF dst.heap /\ dst.len + n <= dst.cap
    THEN [slice |-> [dst EXCEPT !.len = dst.len + n],
          mem   |-> [c \in Cells |->
                        IF c \in { dst.off + dst.len + i : i \in 1..n }
                        THEN src[c - dst.off - dst.len]
                        ELSE m[c]]]
    ELSE [slice |-> FreshSlice(ElemsOf(m, dst) \o src), mem |-> m]

(***************************************************************************)
(* address checks                                                          *)
(***************************************************************************)
\* isValidEmailAddress that asks for the "@" alone
isValidEmailAddress_atOnly(address) == Contains(address, "@")

\* awsses: isValidEmailAddress
isValidEmailAddress(address) == Contains(address, "@") /\ Contains(address, ".")

\* net/mail address grammar, for the bare addr-spec form local@domain that
\* the addresses of the model have: local and domain are dot-atoms of atext
\* (atext without its backquote, which no address of the model has)
ATextChars ==
    LowerChars \o UpperChars \o "0123456789" \o "!#$%&'*+-/=?^_{|}~"
AText == { CharAt(ATextChars, k) : k \in 1..Len(ATextChars) }

IsDotAtom(s) ==
    /\ Len(s) > 0
    /\ \A i \in 1..Len(s) : CharAt(s, i) \in AText \/ CharAt(s, i) = "."
    /\ CharAt(s, 1) # "."
    /\ CharAt(s, Len(s)) # "."
    /\ ~Contains(s, "..")

\* mail.ParseAddress(address) returns no error
ParseAddressOK(address) ==
    \E i \in 1..Len(address) :
        /\ CharAt(address, i) = "@"
        /\ IsDotAtom(SubSeq(address, 1, i - 1))
        /\ IsDotAtom(SubSeq(address, i + 1, Len(address)))

\* the error mail.ParseAddress returns for an address it rejects
ParseAddressError(address) == [type |-> "net/mail error", input |-> address]

(***************************************************************************)
(* the validators                                                          *)
(***************************************************************************)
\* the index of the first element of addrs that fails the cloud adapter's
\* check, 0 when none does: the range loop of validateEmail
RECURSIVE FirstInvalidSES(_, _)
FirstInvalidSES(addrs, i) ==
    IF i > Len(addrs) THEN 0
    ELSE IF ~isValidEmailAddress(addrs[i]) THEN i
    ELSE FirstInvalidSES(addrs, i + 1)

\* awsses: allAddresses := append(append(e.ToAddresses, e.CCAddresses...), e.BCCAddresses...)
\* The inner append runs first; e.BCCAddresses is read when the outer one copies it.
allAddresses(e, m) ==
    LET a1 == GoAppend(m, HeapSlice(e.ToAddresses), Elems(m, e.CCAddresses))
        a2 == GoAppend(a1.mem, a1.slice, Elems(a1.mem, e.BCCAddresses))
    IN  [addrs |-> ElemsOf(a2.mem, a2.slice), mem |-> a2.mem]

\* validateEmail without its subject check
validateEmail_noSubjectCheck(e, m) ==
    IF e.FromAddress = ""
    THEN [err |-> NewValidationError("from address is required", Nil), mem |-> m]
    ELSE IF ~isValidEmailAddress(e.FromAddress)
    THEN [err |-> NewInvalidEmailError("invalid from address format", Nil), mem |-> m]
    ELSE IF e.ToAddresses.len + e.CCAddresses.len + e.BCCAddresses.len = 0
    THEN [err |-> NewValidationError("at least one recipient is required", Nil), mem |-> m]
    ELSE LET all == allAddresses(e, m)
             bad == FirstInvalidSES(all.addrs, 1)
         IN  IF bad # 0
             THEN [err |-> NewInvalidEmailError(
                               Sprintf("invalid recipient address: %s", all.addrs[bad]), Nil),
                   mem |-> all.mem]
             ELSE IF e.HTMLBody = "" /\ e.TextBody = ""
             THEN [err |-> NewValidationError("email body is required (HTML or text)", Nil),
                   mem |-> all.mem]
             ELSE [err |-> Nil, mem |-> all.mem]

\* validateEmail with a seventh check, of the reply-to addresses
validateEmail_replyToChecked(e, m) ==
    IF e.FromAddress = ""
    THEN [err |-> NewValidationError("from address is required", Nil), mem |-> m]
    ELSE IF ~isValidEmailAddress(e.FromAddress)
    THEN [err |-> NewInvalidEmailError("invalid from address format", Nil), mem |-> m]
    ELSE IF e.ToAddresses.len + e.CCAddresses.len + e.BCCAddresses.len = 0
    THEN [err |-> NewValidationError("at least one recipient is required", Nil), mem |-> m]
    ELSE LET all == allAddresses(e, m)
             bad == FirstInvalidSES(all.addrs, 1)
         IN  IF bad # 0
             THEN [err |-> NewInvalidEmailError(
                               Sprintf("invalid recipient address: %s", all.addrs[bad]), Nil),
                   mem |-> all.mem]
             ELSE IF FirstInvalidSES(e.ReplyToAddresses, 1) # 0
             THEN [err |-> NewInvalidEmailError("invalid reply-to address", Nil),
                   mem |-> all.mem]
             ELSE IF e.Subject = ""
             THEN [err |-> NewValidationError("subject is required", Nil), mem |-> all.mem]
             ELSE IF e.HTMLBody = "" /\ e.TextBody = ""
             THEN [err |-> NewValidationError("email body is required (HTML or text)", Nil),
                   mem |-> all.mem]
             ELSE [err |-> Nil, mem |-> all.mem]

\* awsses: validateEmail(e), on memory m: the error returned and the memory left
validateEmail(e, m) ==
    IF e.FromAddress = ""
    THEN [err |-> NewValidationError("from address is required", Nil), mem |-> m]
    ELSE IF ~isValidEmailAddress(e.FromAddress)
    THEN [err |-> NewInvalidEmailError("invalid from address format", Nil), mem |-> m]
    ELSE IF e.ToAddresses.len + e.CCAddresses.len + e.BCCAddresses.len = 0
    THEN [err |-> NewValidationError("at least one recipient is required", Nil), mem |-> m]
    ELSE LET all == allAddresses(e, m)
             bad == FirstInvalidSES(all.addrs, 1)
         IN  IF bad # 0
             THEN [err |-> NewInvalidEmailError(
                               Sprintf("invalid recipient address: %s", all.addrs[bad]), Nil),
                   mem |-> all.mem]
             ELSE IF e.Subject = ""
             THEN [err |-> NewValidationError("subject is required", Nil), mem |-> all.mem]
             ELSE IF e.HTMLBody = "" /\ e.TextBody = ""
             THEN [err |-> NewValidationError("email body is required (HTML or text)", Nil),
                   mem |-> all.mem]
             ELSE [err |-> Nil, mem |-> all.mem]

\* the range loop of GmailSender.validateEmail
RECURSIVE FirstInvalidGmail(_, _)
FirstInvalidGmail(addrs, i) ==
    IF i > Len(addrs) THEN 0
    ELSE IF ~ParseAddressOK(addrs[i]) THEN i
    ELSE FirstInvalidGmail(addrs, i + 1)

\* gmail: allRecipients := append(e.ToAddresses, e.CCAddresses...)
\*        allRecipients = append(allRecipients, e.BCCAddresses...)
allRecipients(e, m) ==
    LET a1 == GoAppend(m, HeapSlice(e.ToAddresses), Elems(m, e.CCAddresses))
        a2 == GoAppend(a1.mem, a1.slice, Elems(a1.mem, e.BCCAddresses))
    IN  [addrs |-> ElemsOf(a2.mem, a2.slice), mem |-> a2.mem]

\* gmail: (g *GmailSender) validateEmail(e), on memory m
GmailSender_validateEmail(e, m) ==
    IF e.FromAddress = ""
    THEN [err |-> NewValidationError("From address is required", Nil), mem |-> m]
    ELSE IF ~ParseAddressOK(e.FromAddress)
    THEN [err |-> NewInvalidEmailError("Invalid from address format",
                                       ParseAddressError(e.FromAddress)),
          mem |-> m]
    ELSE IF e.ToAddresses.len = 0 /\ e.CCAddresses.len = 0 /\ e.BCCAddresses.len = 0
    THEN [err |-> NewValidationError("At least one recipient is required", Nil), mem |-> m]
    ELSE LET all == allRecipients(e, m)
             bad == FirstInvalidGmail(all.addrs, 1)
         IN  IF bad # 0
             THEN [err |-> NewInvalidEmailError(
                               Sprintf("Invalid recipient address format: %s", all.addrs[bad]),
                               ParseAddressError(all.addrs[bad])),
                   mem |-> all.mem]
             ELSE IF e.Subject = ""
             THEN [err |-> NewValidationError("Subject is required", Nil), mem |-> all.mem]
             ELSE IF e.HTMLBody = "" /\ e.TextBody = ""
             THEN [err |-> NewValidationError("Email body is required", Nil), mem |-> all.mem]
             ELSE [err |-> Nil, mem |-> all.mem]

(***************************************************************************)
(* awsses: categorizeAWSError                                              *)
(***************************************************************************)
\* A provider error of the cloud adapter is a chain of error values, outermost
\* first, each wrapping the next; a link is a smithy.APIError (with its
\* ErrorCode and message) or an error of another type.
APILink(code, message)  == [type |-> "smithy.APIError", Code |-> code, Message |-> message]
PlainLink(message)      == [type |-> "error", Code |-> "", Message |-> message]

\* errors.As(err, &apiErr): the first smithy.APIError of the chain, if any
RECURSIVE ErrorsAsAPIError(_)
ErrorsAsAPIError(err) ==
    IF Len(err.chain) = 0 THEN [ok |-> FALSE, apiErr |-> Nil]
    ELSE IF Head(err.chain).type = "smithy.APIError"
    THEN [ok |-> TRUE, apiErr |-> Head(err.chain)]
    ELSE ErrorsAsAPIError([err EXCEPT !.chain = Tail(err.chain)])

\* categorizeAWSError matching the error code by the name it starts with and,
\* for an error that is no API error, by its text
categorizeAWSError_loose(err) ==
    LET as == ErrorsAsAPIError(err)
        code == IF as.ok THEN as.apiErr.Code ELSE ""
    IN  IF as.ok /\ HasPrefix(code, "TooManyRequests")
        THEN NewRateLimitedError("sending rate limit exceeded", err)
        ELSE IF as.ok /\ HasPrefix(code, "MessageRejected")
        THEN NewMessageRejectedError("message rejected by SES", err)
        ELSE IF as.ok /\ code = "MailFromDomainNotVerifiedException"
        THEN NewUnverifiedDomainError("sender domain not verified", err)
        ELSE IF as.ok /\ code = "InvalidParameterValueException"
        THEN NewInvalidEmailError("invalid email parameter", err)
        ELSE IF as.ok /\ code \in { "ServiceUnavailableException", "InternalServiceErrorException" }
        THEN NewServiceError("AWS SES service error", err)
        ELSE NewUnknownError("failed to send email", err)

categorizeAWSError(err) ==
    LET as == ErrorsAsAPIError(err)
        code == IF as.ok THEN as.apiErr.Code ELSE ""
    IN  IF as.ok /\ code = "TooManyRequestsException"
        THEN NewRateLimitedError("sending rate limit exceeded", err)
        ELSE IF as.ok /\ code = "MessageRejected"
        THEN NewMessageRejectedError("message rejected by SES", err)
        ELSE IF as.ok /\ code = "MailFromDomainNotVerifiedException"
        THEN NewUnverifiedDomainError("sender domain not verified", err)
        ELSE IF as.ok /\ code = "InvalidParameterValueException"
        THEN NewInvalidEmailError("invalid email parameter", err)
        ELSE IF as.ok /\ code \in { "ServiceUnavailableException", "InternalServiceErrorException" }
        THEN NewServiceError("AWS SES service error", err)
        ELSE NewUnknownError("failed to send email", err)

(***************************************************************************)
(* gmail: mapGmailError                                                    *)
(***************************************************************************)
\* A provider error of the webmail adapter is a *googleapi.Error (with Code and
\* Message) or an error of another type, known by its Error() text.
GoogleAPIError(code, message) ==
    [type |-> "*googleapi.Error", Code |-> code, Message |-> message]
PlainError(text) == [type |-> "error", Code |-> 0, Message |-> text]

\* case 400 with the word "invalid" alone deciding INVALID_EMAIL
mapGmailError400_invalidAlone(err) ==
    LET lower == ToLower(err.Message) IN
    IF Contains(lower, "invalid")
    THEN NewInvalidEmailError("Invalid email address", err)
    ELSE IF Contains(lower, "malformed") \/ Contains(lower, "encoding")
    THEN NewValidationError("Invalid message format", err)
    ELSE IF Contains(lower, "too large") \/ Contains(lower, "size")
    THEN NewValidationError("Message too large", err)
    ELSE NewValidationError("Invalid request parameters", err)

\* case 400
mapGmailError400(err) ==
    LET lower == ToLower(err.Message) IN
    IF /\ Contains(lower, "invalid")
       /\ \/ Contains(lower, "recipient")
          \/ Contains(lower, "email")
          \/ Contains(lower, "address")
    THEN NewInvalidEmailError("Invalid email address", err)
    ELSE IF Contains(lower, "malformed") \/ Contains(lower, "encoding")
    THEN NewValidationError("Invalid message format", err)
    ELSE IF Contains(lower, "too large") \/ Contains(lower, "size")
    THEN NewValidationError("Message too large", err)
    ELSE NewValidationError("Invalid request parameters", err)

\* case 403 without the test for "blocked"
mapGmailError403_noBlocked(err) ==
    LET lower == ToLower(err.Message) IN
    IF Contains(lower, "scope") \/ Contains(lower, "permission")
    THEN NewUnverifiedDomainError("Insufficient permissions to send email", err)
    ELSE IF Contains(lower, "domain")
    THEN NewUnverifiedDomainError("Domain policy prevents sending", err)
    ELSE NewUnverifiedDomainError("Permission denied", err)

\* case 403 with "blocked" tested before "domain"
mapGmailError403_blockedFirst(err) ==
    LET lower == ToLower(err.Message) IN
    IF Contains(lower, "scope") \/ Contains(lower, "permission")
    THEN NewUnverifiedDomainError("Insufficient permissions to send email", err)
    ELSE IF Contains(lower, "blocked")
    THEN NewMessageRejectedError("Sender blocked by recipient", err)
    ELSE IF Contains(lower, "domain")
    THEN NewUnverifiedDomainError("Domain policy prevents sending", err)
    ELSE NewUnverifiedDomainError("Permission denied", err)

\* case 403
mapGmailError403(err) ==
    LET lower == ToLower(err.Message) IN
    IF Contains(lower, "scope") \/ Contains(lower, "permission")
    THEN NewUnverifiedDomainError("Insufficient permissions to send email", err)
    ELSE IF Contains(lower, "domain")
    THEN NewUnverifiedDomainError("Domain policy prevents sending", err)
    ELSE IF Contains(lower, "blocked")
    THEN NewMessageRejectedError("Sender blocked by recipient", err)
    ELSE NewUnverifiedDomainError("Permission denied", err)

\* case 429 falling to a service error when the message names neither a quota
\* nor a rate
mapGmailError429_byText(err) ==
    LET lower == ToLower(err.Message) IN
    IF Contains(lower, "quota")
    THEN NewRateLimitedError("Gmail API quota exceeded", err)
    ELSE IF Contains(lower, "rate")
    THEN NewRateLimitedError("Gmail API rate limit exceeded", err)
    ELSE NewServiceError("Too many requests", err)

\* case 429
mapGmailError429(err) ==
    LET lower == ToLower(err.Message) IN
    IF Contains(lower, "quota")
    THEN NewRateLimitedError("Gmail API quota exceeded", err)
    ELSE IF Contains(lower, "rate")
    THEN NewRateLimitedError("Gmail API rate limit exceeded", err)
    ELSE NewRateLimitedError("Too many requests", err)

\* the errors that are no *googleapi.Error, with "context" alone read as a
\* timeout
mapGmailErrorPlain_contextAlone(err) ==
    LET lower == ToLower(err.Message) IN
    IF Contains(lower, "context") \/ Contains(lower, "deadline")
    THEN NewServiceError("Request timeout", err)
    ELSE IF Contains(lower, "connection") \/ Contains(lower, "network")
    THEN NewServiceError("Network error", err)
    ELSE NewUnknownError("Gmail API error", err)

\* the errors that are no *googleapi.Error
mapGmailErrorPlain(err) ==
    LET lower == ToLower(err.Message) IN
    IF Contains(lower, "context") /\ Contains(lower, "deadline")
    THEN NewServiceError("Request timeout", err)
    ELSE IF Contains(lower, "connection") \/ Contains(lower, "network")
    THEN NewServiceError("Network error", err)
    ELSE NewUnknownError("Gmail API error", err)

\* mapGmailError whose default case passes no cause on
mapGmailError_defaultNoCause(err) ==
    IF err.type = "*googleapi.Error"
    THEN CASE err.Code = 400 -> mapGmailError400(err)
           [] err.Code = 401 ->
                NewValidationError("Authentication failed - check service account credentials", err)
           [] err.Code = 403 -> mapGmailError403(err)
           [] err.Code = 429 -> mapGmailError429(err)
           [] err.Code = 500 -> NewServiceError("Internal Gmail server error", err)
           [] err.Code = 503 -> NewServiceError("Gmail service temporarily unavailable", err)
           [] err.Code = 504 -> NewServiceError("Gmail API request timeout", err)
           [] OTHER ->
                NewServiceError(Sprintf("Gmail API error (HTTP %d)", Itoa(err.Code)), Nil)
    ELSE mapGmailErrorPlain(err)

mapGmailError(err) ==
    IF err.type = "*googleapi.Error"
    THEN CASE err.Code = 400 -> mapGmailError400(err)
           [] err.Code = 401 ->
                NewValidationError("Authentication failed - check service account credentials", err)
           [] err.Code = 403 -> mapGmailError403(err)
           [] err.Code = 429 -> mapGmailError429(err)
           [] err.Code = 500 -> NewServiceError("Internal Gmail server error", err)
           [] err.Code = 503 -> NewServiceError("Gmail service temporarily unavailable", err)
           [] err.Code = 504 -> NewServiceError("Gmail API request timeout", err)
           [] OTHER ->
                NewServiceError(Sprintf("Gmail API error (HTTP %d)", Itoa(err.Code)), err)
    ELSE mapGmailErrorPlain(err)

(***************************************************************************)
(* bytes of strings, encoding/base64, mime.QEncoding, fmt.Sprintf          *)
(***************************************************************************)
\* the printable ASCII characters in the order of their codes 32 to 126,
\* without the backquote (96), which no string of the model holds
PrintableChars ==
    " !\"#$%&'()*+,-./0123456789:;<=>?@ABCDEFGHIJKLMNOPQRSTUVWXYZ[\\]^_abcdefghijklmnopqrstuvwxyz{|}~"

\* the byte of each character
ByteOfChar ==
    [c \in { CharAt(PrintableChars, i) : i \in 1..Len(PrintableChars) } \cup { "\t", "\n", "\r" } |->
        IF c = "\t" THEN 9
        ELSE IF c = "\n" THEN 10
        ELSE IF c = "\r" THEN 13
        ELSE LET i == CHOOSE k \in 1..Len(PrintableChars) : CharAt(PrintableChars, k) = c
             IN  IF i <= 64 THEN i + 31 ELSE i + 32]

\* []byte(s)
Bytes(s) == [i \in 1..Len(s) |-> ByteOfChar[CharAt(s, i)]]

\* base64.StdEncoding and base64.URLEncoding: the alphabet, with padding "="
StdEncoding == "ABCDEFGHIJKLMNOPQRSTUVWXYZabcdefghijklmnopqrstuvwxyz0123456789+/"
URLEncoding == "ABCDEFGHIJKLMNOPQRSTUVWXYZabcdefghijklmnopqrstuvwxyz0123456789-_"

\* the four characters that encode a group of one, two or three bytes
EncodeGroup(enc, g) ==
    LET n  == Len(g)
        v  == g[1] * 65536 + (IF n >= 2 THEN g[2] * 256 ELSE 0) + (IF n >= 3 THEN g[3] ELSE 0)
    IN  CharAt(enc, ((v \div 262144) % 64) + 1)
        \o CharAt(enc, ((v \div 4096) % 64) + 1)
        \o (IF n >= 2 THEN CharAt(enc, ((v \div 64) % 64) + 1) ELSE "=")
        \o (IF n >= 3 THEN CharAt(enc, (v % 64) + 1) ELSE "=")

\* (*Encoding).EncodeToString(src)
RECURSIVE EncodeToString(_, _)
EncodeToString(enc, src) ==
    IF Len(src) = 0 THEN ""
    ELSE IF Len(src) <= 3 THEN EncodeGroup(enc, src)
    ELSE LET h == 3 * (((Len(src) + 2) \div 3) \div 2)
         IN  EncodeToString(enc, SubSeq(src, 1, h))
                 \o EncodeToString(enc, SubSeq(src, h + 1, Len(src)))

HexDigits == "0123456789ABCDEF"

\* needsEncoding(s) of package mime: a byte outside " ".."~" other than tab
needsEncoding(s) ==
    \E i \in 1..Len(s) :
        LET b == ByteOfChar[CharAt(s, i)]
        IN  (b < 32 \/ b > 126) /\ b # 9

\* writeQString of package mime
RECURSIVE writeQString(_)
writeQString(s) ==
    IF Len(s) = 0 THEN ""
    ELSE LET c == CharAt(s, 1)
             b == ByteOfChar[c]
         IN  (IF c = " " THEN "_"
              ELSE IF b >= 33 /\ b <= 126 /\ c \notin { "=", "?", "_" } THEN c
              ELSE "=" \o CharAt(HexDigits, (b \div 16) + 1) \o CharAt(HexDigits, (b % 16) + 1))
             \o writeQString(SubSeq(s, 2, Len(s)))

\* mime.QEncoding.Encode(charset, s).  The encoded word is split after 63
\* characters of content; the subjects of the model are shorter.
QEncoding_Encode(charset, s) ==
    IF ~needsEncoding(s) THEN s
    ELSE "=?" \o charset \o "?q?" \o writeQString(s) \o "?="

\* fmt.Sprintf(format, args...) for %s verbs: each verb, from the left, is
\* replaced by the next argument
RECURSIVE SprintfAll(_, _)
SprintfAll(format, args) ==
    IF Len(args) = 0 THEN format
    ELSE LET P == { k \in 1..Len(format) : CharAt(format, k) = "%" }
             i == CHOOSE k \in P : \A j \in P : k <= j
         IN  SubSeq(format, 1, i - 1) \o args[1]
                 \o SprintfAll(SubSeq(format, i + 2, Len(format)), Tail(args))

(***************************************************************************)
(* gmail: createMessage                                                    *)
(***************************************************************************)
\* the boundary of createMessage and that of createMessageWithAttachments
AlternativeBoundary == "boundary123456789"
MixedBoundary       == "mixed_boundary_123456789"

\* the raw string literals of the builder; their line breaks are those of the
\* source file, single line feeds
AlternativeBodyFormat ==
    "\n--%s\nContent-Type: text/plain; charset=utf-8\nContent-Transfer-Encoding: 8bit\n\n%s\n\n"
    \o "--%s\nContent-Type: text/html; charset=utf-8\nContent-Transfer-Encoding: 8bit\n\n%s\n\n--%s--"

\* the body part declared by the type of an HTML body
TextPartFormat_html ==
    "--%s\nContent-Type: text/html; charset=utf-8\nContent-Transfer-Encoding: 8bit\n\n%s"

TextPartFormat ==
    "--%s\nContent-Type: text/plain; charset=utf-8\nContent-Transfer-Encoding: 8bit\n\n%s"

AttachmentPartFormat ==
    "--%s\nContent-Type: %s; name=\"%s\"\nContent-Disposition: attachment; filename=\"%s\"\n"
    \o "Content-Transfer-Encoding: base64\n\n%s"

\* containsContentType finding no header whatever the list holds
containsContentType_never(headers) == FALSE

\* containsContentType(headers)
containsContentType(headers) ==
    \E i \in 1..Len(headers) : HasPrefix(headers[i], "Content-Type:")

\* the part of one attachment with its content in the URL alphabet
attachmentPart_urlEncoded(boundary, attachment) ==
    SprintfAll(AttachmentPartFormat,
               << boundary, attachment.ContentType, attachment.FileName, attachment.FileName,
                  EncodeToString(URLEncoding, attachment.Content) >>)

\* the part of one attachment
attachmentPart(boundary, attachment) ==
    SprintfAll(AttachmentPartFormat,
               << boundary, attachment.ContentType, attachment.FileName, attachment.FileName,
                  EncodeToString(StdEncoding, attachment.Content) >>)

\* createMessageWithAttachments writing the attachments last to first
createMessageWithAttachments_reversed(headers, body, attachments) ==
    LET boundary == MixedBoundary
        mixed    == Sprintf("Content-Type: multipart/mixed; boundary=%s", boundary)
        F        == { i \in 1..Len(headers) : HasPrefix(headers[i], "Content-Type:") }
        replaced == [i \in 1..Len(headers) |->
                        IF i \in F /\ \A j \in F : i <= j THEN mixed ELSE headers[i]]
        headers2 == IF ~containsContentType(replaced) THEN Append(replaced, mixed) ELSE replaced
        parts    == << SprintfAll(TextPartFormat, <<boundary, body>>) >>
                    \o [i \in 1..Len(attachments) |->
                            attachmentPart(boundary, attachments[Len(attachments) + 1 - i])]
                    \o << Sprintf("--%s--", boundary) >>
        raw      == Join(headers2, "\r\n") \o "\r\n\r\n" \o Join(parts, "\r\n")
    IN  [message |-> [Raw |-> EncodeToString(URLEncoding, Bytes(raw))], err |-> Nil]

\* createMessageWithAttachments(headers, body, attachments)
createMessageWithAttachments(headers, body, attachments) ==
    LET boundary == MixedBoundary
        mixed    == Sprintf("Content-Type: multipart/mixed; boundary=%s", boundary)
        F        == { i \in 1..Len(headers) : HasPrefix(headers[i], "Content-Type:") }
        replaced == [i \in 1..Len(headers) |->
                        IF i \in F /\ \A j \in F : i <= j THEN mixed ELSE headers[i]]
        headers2 == IF ~containsContentType(replaced) THEN Append(replaced, mixed) ELSE replaced
        parts    == << SprintfAll(TextPartFormat, <<boundary, body>>) >>
                    \o [i \in 1..Len(attachments) |-> attachmentPart(boundary, attachments[i])]
                    \o << Sprintf("--%s--", boundary) >>
        raw      == Join(headers2, "\r\n") \o "\r\n\r\n" \o Join(parts, "\r\n")
    IN  [message |-> [Raw |-> EncodeToString(URLEncoding, Bytes(raw))], err |-> Nil]

\* the same with the Bcc header written before the Cc header
addressHeaders_bccFirst(e, m) ==
    << Sprintf("From: %s", e.FromAddress),
       Sprintf("To: %s", Join(Elems(m, e.ToAddresses), ", ")),
       Sprintf("Subject: %s", QEncoding_Encode("utf-8", e.Subject)),
       "MIME-Version: 1.0" >>
    \o (IF e.BCCAddresses.len > 0
        THEN << Sprintf("Bcc: %s", Join(Elems(m, e.BCCAddresses), ", ")) >> ELSE << >>)
    \o (IF e.CCAddresses.len > 0
        THEN << Sprintf("Cc: %s", Join(Elems(m, e.CCAddresses), ", ")) >> ELSE << >>)
    \o (IF Len(e.ReplyToAddresses) > 0
        THEN << Sprintf("Reply-To: %s", Join(e.ReplyToAddresses, ", ")) >> ELSE << >>)

\* the headers createMessage assembles before it chooses the body
addressHeaders(e, m) ==
    << Sprintf("From: %s", e.FromAddress),
       Sprintf("To: %s", Join(Elems(m, e.ToAddresses), ", ")),
       Sprintf("Subject: %s", QEncoding_Encode("utf-8", e.Subject)),
       "MIME-Version: 1.0" >>
    \o (IF e.CCAddresses.len > 0
        THEN << Sprintf("Cc: %s", Join(Elems(m, e.CCAddresses), ", ")) >> ELSE << >>)
    \o (IF e.BCCAddresses.len > 0
        THEN << Sprintf("Bcc: %s", Join(Elems(m, e.BCCAddresses), ", ")) >> ELSE << >>)
    \o (IF Len(e.ReplyToAddresses) > 0
        THEN << Sprintf("Reply-To: %s", Join(e.ReplyToAddresses, ", ")) >> ELSE << >>)

\* the same with the HTML part written before the text part
bodyShape_htmlFirst(e) ==
    IF e.HTMLBody # "" /\ e.TextBody # ""
    THEN LET boundary == AlternativeBoundary
         IN  [headers |-> << Sprintf("Content-Type: multipart/alternative; boundary=%s", boundary) >>,
              body    |-> SprintfAll(
                  "\n--%s\nContent-Type: text/html; charset=utf-8\nContent-Transfer-Encoding: 8bit\n\n%s\n\n"
                  \o "--%s\nContent-Type: text/plain; charset=utf-8\nContent-Transfer-Encoding: 8bit\n\n%s\n\n--%s--",
                  <<boundary, e.HTMLBody, boundary, e.TextBody, boundary>>)]
    ELSE IF e.HTMLBody # ""
    THEN [headers |-> << "Content-Type: text/html; charset=utf-8",
                         "Content-Transfer-Encoding: 8bit" >>,
          body    |-> e.HTMLBody]
    ELSE [headers |-> << "Content-Type: text/plain; charset=utf-8",
                         "Content-Transfer-Encoding: 8bit" >>,
          body    |-> e.TextBody]

\* the same with the transfer encoding declared for every shape of the body
bodyShape_encodingAlways(e) ==
    IF e.HTMLBody # "" /\ e.TextBody # ""
    THEN LET boundary == AlternativeBoundary
         IN  [headers |-> << Sprintf("Content-Type: multipart/alternative; boundary=%s", boundary),
                             "Content-Transfer-Encoding: 8bit" >>,
              body    |-> SprintfAll(AlternativeBodyFormat,
                                     <<boundary, e.TextBody, boundary, e.HTMLBody, boundary>>)]
    ELSE IF e.HTMLBody # ""
    THEN [headers |-> << "Content-Type: text/html; charset=utf-8",
                         "Content-Transfer-Encoding: 8bit" >>,
          body    |-> e.HTMLBody]
    ELSE [headers |-> << "Content-Type: text/plain; charset=utf-8",
                         "Content-Transfer-Encoding: 8bit" >>,
          body    |-> e.TextBody]

\* the headers and the body createMessage chooses by the shape of the body
bodyShape(e) ==
    IF e.HTMLBody # "" /\ e.TextBody # ""
    THEN LET boundary == AlternativeBoundary
         IN  [headers |-> << Sprintf("Content-Type: multipart/alternative; boundary=%s", boundary) >>,
              body    |-> SprintfAll(AlternativeBodyFormat,
                                     <<boundary, e.TextBody, boundary, e.HTMLBody, boundary>>)]
    ELSE IF e.HTMLBody # ""
    THEN [headers |-> << "Content-Type: text/html; charset=utf-8",
                         "Content-Transfer-Encoding: 8bit" >>,
          body    |-> e.HTMLBody]
    ELSE [headers |-> << "Content-Type: text/plain; charset=utf-8",
                         "Content-Transfer-Encoding: 8bit" >>,
          body    |-> e.TextBody]

\* createMessage stamping the message with the time, the number of messages
\* built before standing for the clock
createMessage_dated(e, m) ==
    LET shape   == bodyShape(e)
        headers == addressHeaders(e, m) \o << Sprintf("Date: %s", Itoa(Len(built))) >>
                       \o shape.headers
        raw     == Join(headers, "\r\n") \o "\r\n\r\n" \o shape.body
    IN  IF Len(e.Attachments) > 0
        THEN createMessageWithAttachments(headers, shape.body, e.Attachments)
        ELSE [message |-> [Raw |-> EncodeToString(URLEncoding, Bytes(raw))], err |-> Nil]

\* createMessage(e), reading the address slices from memory m
createMessage(e, m) ==
    LET shape   == bodyShape(e)
        headers == addressHeaders(e, m) \o shape.headers
        raw     == Join(headers, "\r\n") \o "\r\n\r\n" \o shape.body
    IN  IF Len(e.Attachments) > 0
        THEN createMessageWithAttachments(headers, shape.body, e.Attachments)
        ELSE [message |-> [Raw |-> EncodeToString(URLEncoding, Bytes(raw))], err |-> Nil]

(***************************************************************************)
(* awsses: the request handed to the provider                              *)
(***************************************************************************)
utf8Content(str) == [Data |-> str, Charset |-> "UTF-8"]

\* htmlContentFromEmail without its test for an empty body
htmlContentFromEmail_always(e) == utf8Content(e.HTMLBody)

htmlContentFromEmail(e) == IF e.HTMLBody = "" THEN Nil ELSE utf8Content(e.HTMLBody)

textContentFromEmail(e) == IF e.TextBody = "" THEN Nil ELSE utf8Content(e.TextBody)

attachmentToAWS(attachment) ==
    [ FileName           |-> attachment.FileName,
      RawContent         |-> attachment.Content,
      ContentType        |-> attachment.ContentType,
      ContentDescription |-> attachment.Description,
      ContentDisposition |-> "ATTACHMENT" ]

\* attachmentsToAWS filling the request's list from its end
attachmentsToAWS_reversed(attachments) ==
    [i \in 1..Len(attachments) |-> attachmentToAWS(attachments[Len(attachments) + 1 - i])]

attachmentsToAWS(attachments) ==
    [i \in 1..Len(attachments) |-> attachmentToAWS(attachments[i])]

\* &sesv2.SendEmailInput{...}: the destination lists are the Email's slice
\* headers, which still point into the caller's memory
SendEmailInput(e) ==
    [ Content |->
        [ Simple |->
            [ Body        |-> [Html |-> htmlContentFromEmail(e), Text |-> textContentFromEmail(e)],
              Subject     |-> utf8Content(e.Subject),
              Attachments |-> attachmentsToAWS(e.Attachments) ] ],
      Destination |->
        [ ToAddresses  |-> e.ToAddresses,
          CcAddresses  |-> e.CCAddresses,
          BccAddresses |-> e.BCCAddresses ],
      FromEmailAddress |-> e.FromAddress,
      ReplyToAddresses |-> e.ReplyToAddresses ]

(***************************************************************************)
(* SendEmail of the two adapters                                           *)
(***************************************************************************)
\* AWSSESSender.SendEmail up to the provider call: either it returns the
\* validator's error, or it is about to call sesClient.SendEmail
AWSSESSender_SendEmail_begin(e, m) ==
    LET v == validateEmail(e, m) IN
    IF v.err # Nil
    THEN [pc |-> "returned", result |-> v.err, mem |-> v.mem, request |-> Nil]
    ELSE [pc |-> "rpc", result |-> Nil, mem |-> v.mem, request |-> SendEmailInput(e)]

\* SendEmail returning the provider's error as it came
AWSSESSender_SendEmail_end_unwrapped(err) ==
    [pc |-> "returned", result |-> err]

\* SendEmail calling the provider again after a failed call
AWSSESSender_SendEmail_end_retry(err) ==
    IF err # Nil /\ rpcCount < 2
    THEN [pc |-> "rpc", result |-> Nil]
    ELSE [pc |-> "returned", result |-> IF err # Nil THEN categorizeAWSError(err) ELSE Nil]

\* SendEmail of a sender that remembers its last call: once that call has
\* failed, the next one reports the sender as broken
AWSSESSender_SendEmail_end_sticky(err) ==
    IF Len(history) > 0 /\ history[Len(history)].result # Nil
    THEN [pc |-> "returned",
          result |-> NewUnknownError("Sender failed before", history[Len(history)].result)]
    ELSE IF err # Nil
    THEN [pc |-> "returned", result |-> categorizeAWSError(err)]
    ELSE [pc |-> "returned", result |-> Nil]

\* AWSSESSender.SendEmail after the provider call returned err
AWSSESSender_SendEmail_end(err) ==
    IF err # Nil
    THEN [pc |-> "returned", result |-> categorizeAWSError(err)]
    ELSE [pc |-> "returned", result |-> Nil]

\* SendEmail calling the provider whatever the validator said
GmailSender_SendEmail_begin_unvalidated(e, m) ==
    LET v == GmailSender_validateEmail(e, m) IN
    [pc |-> "rpc", result |-> Nil, mem |-> v.mem,
     request |-> [userID |-> "me", message |-> createMessage(e, v.mem).message]]

\* GmailSender.SendEmail up to the provider call: it returns the validator's
\* error or the builder's, or it is about to send the message built from the
\* Email, as validation left it in memory, under the user ID "me"
GmailSender_SendEmail_begin(e, m) ==
    LET v == GmailSender_validateEmail(e, m) IN
    IF v.err # Nil
    THEN [pc |-> "returned", result |-> v.err, mem |-> v.mem, request |-> Nil]
    ELSE LET c == createMessage(e, v.mem) IN
         IF c.err # Nil
         THEN [pc |-> "returned", result |-> NewValidationError("Failed to create message", c.err),
               mem |-> v.mem, request |-> Nil]
         ELSE [pc |-> "rpc", result |-> Nil, mem |-> v.mem,
               request |-> [userID |-> "me", message |-> c.message]]

\* SendEmail mapping the provider's answer whether or not it is an error
GmailSender_SendEmail_end_alwaysMapped(err) ==
    [pc |-> "returned", result |-> NewUnknownError("Gmail API error", err)]

\* GmailSender.SendEmail after the provider call returned err
GmailSender_SendEmail_end(err) ==
    IF err # Nil
    THEN [pc |-> "returned", result |-> mapGmailError(err)]
    ELSE [pc |-> "returned", result |-> Nil]

(***************************************************************************)
(* the provider: the errors an RPC may return                              *)
(***************************************************************************)
AWSErr(chain) == [type |-> "aws", chain |-> chain]

AWSErrorCodes ==
    { "TooManyRequestsException", "MessageRejected", "MailFromDomainNotVerifiedException",
      "InvalidParameterValueException", "ServiceUnavailableException",
      "InternalServiceErrorException", "UnknownException",
      "toomanyrequestsexception", "MessageRejectedException", "" }

AWSErrorMessages ==
    { "Rate limit exceeded", "Message rejected", "network error",
      "context canceled", "context deadline exceeded" }

\* every native error of the cloud provider: a bare API error, an API error
\* wrapped in an operation error, and an error that holds no API error
AWSErrors ==
    { AWSErr(<<APILink(c, t)>>) : c \in AWSErrorCodes, t \in AWSErrorMessages }
    \cup { AWSErr(<<PlainLink("operation error SES: SendEmail"), APILink(c, t)>>) :
             c \in AWSErrorCodes, t \in AWSErrorMessages }
    \cup { AWSErr(<<PlainLink(t)>>) : t \in AWSErrorMessages }

\* the words of the webmail provider's messages
Words ==
    << "Invalid", "recipient", "email", "address", "Malformed", "encoding",
       "too large", "oversized", "scope", "Permission", "domain", "BLOCKED",
       "quota", "generated", "context", "deadline", "connection", "network",
       "teapot" >>

\* the sets of at most k word indices
RECURSIVE WordSets(_)
WordSets(k) ==
    IF k = 0 THEN { {} }
    ELSE LET P == WordSets(k - 1)
         IN  P \cup { S \cup {i} : S \in P, i \in 1..Len(Words) }

\* the words of S in the order of Words
RECURSIVE WordSeq(_, _)
WordSeq(S, i) ==
    IF i > Len(Words) THEN <<>>
    ELSE IF i \in S THEN <<Words[i]>> \o WordSeq(S, i + 1)
    ELSE WordSeq(S, i + 1)

GmailMessages == { Join(WordSeq(S, 1), " ") : S \in WordSets(MaxWords) }

GmailStatusCodes == { 400, 401, 403, 404, 418, 429, 500, 503, 504 }

\* every native error of the webmail provider
GmailErrors ==
    { GoogleAPIError(c, t) : c \in GmailStatusCodes, t \in GmailMessages }
    \cup { PlainError(t) : t \in GmailMessages }

\* the provider errors of the adapters' own tests, and a cancelled context
AWSTestErrors ==
    { AWSErr(<<APILink("TooManyRequestsException", "Rate limit exceeded")>>),
      AWSErr(<<APILink("MessageRejected", "Message rejected")>>),
      AWSErr(<<APILink("MailFromDomainNotVerifiedException", "Domain not verified")>>),
      AWSErr(<<APILink("InvalidParameterValueException", "Invalid parameter")>>),
      AWSErr(<<APILink("ServiceUnavailableException", "Service unavailable")>>),
      AWSErr(<<APILink("InternalServiceErrorException", "Internal error")>>),
      AWSErr(<<APILink("UnknownException", "Unknown error")>>),
      AWSErr(<<PlainLink("network error")>>),
      AWSErr(<<PlainLink("context canceled")>>),
      AWSErr(<<PlainLink("context deadline exceeded")>>) }

GmailTestErrors ==
    { GoogleAPIError(400, "Invalid recipient email address"),
      GoogleAPIError(400, "Malformed message content"),
      GoogleAPIError(400, "Message too large"),
      GoogleAPIError(401, "Authentication failed"),
      GoogleAPIError(403, "Insufficient permissions to send email"),
      GoogleAPIError(403, "Domain policy prevents sending"),
      GoogleAPIError(403, "Sender blocked by recipient"),
      GoogleAPIError(429, "Gmail API quota exceeded"),
      GoogleAPIError(429, "Rate limit exceeded"),
      GoogleAPIError(500, "Internal server error"),
      GoogleAPIError(503, "Service temporarily unavailable"),
      GoogleAPIError(504, "Request timeout"),
      GoogleAPIError(418, "I'm a teapot"),
      PlainError("network connection failed"),
      PlainError("context deadline exceeded"),
      PlainError("context canceled") }

\* provider errors that reach the last return of the cases 400, 403 and 429
GmailFallThroughErrors ==
    { GoogleAPIError(400, "Bad Request"),
      GoogleAPIError(403, "Forbidden"),
      GoogleAPIError(429, "Too Many Requests") }

(***************************************************************************)
(* Emails with reply-to strings and attachments                            *)
(***************************************************************************)
\* the attachments of the model: text and binary content, of lengths that
\* leave no, one and two characters of padding
AttachmentValues ==
    { [ FileName |-> "test.txt", Content |-> Bytes("test content"),
        Description |-> "Test file", ContentType |-> "text/plain" ],
      [ FileName |-> "my file (1);v=2.pdf", Content |-> <<251, 255, 190, 0, 63>>,
        Description |-> "", ContentType |-> "application/pdf" ],
      [ FileName |-> "data.bin", Content |-> <<255, 254, 10, 13>>,
        Description |-> "raw", ContentType |-> "application/octet-stream" ] }

\* the lists of at most n attachments
RECURSIVE AttachmentLists(_)
AttachmentLists(n) ==
    IF n = 0 THEN { << >> }
    ELSE LET P == AttachmentLists(n - 1)
         IN  P \cup { Append(l, a) : l \in { q \in P : Len(q) = n - 1 }, a \in AttachmentValues }

\* a slice literal: its capacity is its length
Slice(off, len) == [off |-> off, len |-> len, cap |-> len]

\* reply-to lists: none, an address, and two strings that are no addresses
MimeReplyTo == { << >>, << "r@y.z" >>, << "", "invalid-email" >> }

\* the Emails of one recipient with every reply-to list, body shape and
\* attachment list
FieldEmails ==
    { [ FromAddress      |-> ValidAddr,
        ToAddresses      |-> Slice(0, 1),
        CCAddresses      |-> NilSlice,
        BCCAddresses     |-> NilSlice,
        ReplyToAddresses |-> rt,
        Subject          |-> "Test",
        HTMLBody         |-> html,
        TextBody         |-> text,
        Attachments      |-> atts ] :
        rt \in MimeReplyTo, html \in { "", "<p>Hello</p>" }, text \in { "", "Hello" },
        atts \in AttachmentLists(MaxAttachments) }

\* the Emails SendEmail is called with
SentEmails == Emails \cup FieldEmails

(***************************************************************************)
(* The sender as a state machine.                                          *)
(***************************************************************************)
Idle ==
    /\ pc = "idle"
    /\ adapter = "none"
    /\ email = Nil
    /\ mem0 = Nil
    /\ mem = Nil
    /\ request = Nil
    /\ rpcCount = 0
    /\ rpcErr = Nil
    /\ result = Nil

\* no concurrent calls, no calls that returned
NoRace == heap0 = Nil /\ heap = Nil /\ calls = << >> /\ history = << >>

Init == Idle /\ mapErr = Nil /\ mapOut = Nil /\ built = <<>> /\ NoRace

\* sender.SendEmail(ctx, e) is called on the cloud adapter and runs up to its
\* return or its provider call
CallSES ==
    /\ pc = "idle"
    /\ \E e \in SentEmails : \E m \in Memories(e) :
         \E r \in { AWSSESSender_SendEmail_begin(e, m) } :
         /\ adapter' = "awsses"
         /\ email' = e
         /\ mem0' = m
         /\ mem' = r.mem
         /\ pc' = r.pc
         /\ result' = r.result
         /\ request' = r.request
    /\ UNCHANGED <<rpcCount, rpcErr, mapErr, mapOut, built, raceVars, history>>

\* the same on the webmail adapter
CallGmail ==
    /\ pc = "idle"
    /\ \E e \in SentEmails : \E m \in Memories(e) :
         \E r \in { GmailSender_SendEmail_begin(e, m) } :
         /\ adapter' = "gmail"
         /\ email' = e
         /\ mem0' = m
         /\ mem' = r.mem
         /\ pc' = r.pc
         /\ result' = r.result
         /\ request' = r.request
    /\ UNCHANGED <<rpcCount, rpcErr, mapErr, mapOut, built, raceVars, history>>

\* sesClient.SendEmail returns err (Nil: success) and SendEmail runs on
RpcSES ==
    /\ pc = "rpc"
    /\ adapter = "awsses"
    /\ \E err \in AWSTestErrors \cup { Nil } :
         \E r \in { AWSSESSender_SendEmail_end(err) } :
         /\ rpcErr' = err
         /\ pc' = r.pc
         /\ result' = r.result
    /\ rpcCount' = rpcCount + 1
    /\ UNCHANGED <<adapter, email, mem0, mem, request, mapErr, mapOut, built, raceVars, history>>

\* service.Users.Messages.Send(...).Do() returns err and SendEmail runs on
RpcGmail ==
    /\ pc = "rpc"
    /\ adapter = "gmail"
    /\ \E err \in GmailTestErrors \cup GmailFallThroughErrors \cup { Nil } :
         \E r \in { GmailSender_SendEmail_end(err) } :
         /\ rpcErr' = err
         /\ pc' = r.pc
         /\ result' = r.result
    /\ rpcCount' = rpcCount + 1
    /\ UNCHANGED <<adapter, email, mem0, mem, request, mapErr, mapOut, built, raceVars, history>>

\* the caller takes the result; the sender keeps nothing of the call
Return ==
    /\ pc = "returned"
    /\ pc' = "idle"
    /\ adapter' = "none"
    /\ email' = Nil
    /\ mem0' = Nil
    /\ mem' = Nil
    /\ request' = Nil
    /\ rpcCount' = 0
    /\ rpcErr' = Nil
    /\ result' = Nil
    /\ UNCHANGED <<mapErr, mapOut, built, raceVars, history>>

Next == CallSES \/ CallGmail \/ RpcSES \/ RpcGmail \/ Return

Spec == Init /\ [][Next]_vars

(***************************************************************************)
(* The two mappers applied on their own to every native error.             *)
(***************************************************************************)
InitMap ==
    Idle /\ mapErr \in (AWSErrors \cup GmailErrors) /\ mapOut = Nil /\ built = <<>> /\ NoRace

MapAWS ==
    /\ mapErr.type = "aws"
    /\ mapOut = Nil
    /\ mapOut' = categorizeAWSError(mapErr)
    /\ UNCHANGED <<mapErr, callVars, built, raceVars, history>>

MapGmail ==
    /\ mapErr.type # "aws"
    /\ mapOut = Nil
    /\ mapOut' = mapGmailError(mapErr)
    /\ UNCHANGED <<mapErr, callVars, built, raceVars, history>>

NextMap == MapAWS \/ MapGmail

SpecMap == InitMap /\ [][NextMap]_vars

(***************************************************************************)
(* createMessage applied on its own to Emails that pass validation.        *)
(***************************************************************************)
\* the recipient lists of the model, over the first two cells of memory
MimeRecipients ==
    { [To |-> Slice(0, 1), CC |-> NilSlice,    BCC |-> NilSlice],
      [To |-> Slice(0, 2), CC |-> NilSlice,    BCC |-> NilSlice],
      [To |-> Slice(0, 1), CC |-> Slice(1, 1), BCC |-> NilSlice],
      [To |-> Slice(0, 1), CC |-> NilSlice,    BCC |-> Slice(1, 1)],
      [To |-> NilSlice,    CC |-> Slice(1, 1), BCC |-> Slice(0, 1)] }

\* the memory behind them; the strict parser accepts both addresses
MimeMemory == [c \in Cells |-> IF c = 2 THEN NoDotAddr ELSE ValidAddr]

\* a subject that needs no encoding and one that does
MimeSubjects == { "Test", "Hi\nBcc: q@y.z" }

MimeHTMLBodies == { "", "<p>Hello</p>" }

\* text bodies: one line, and several lines of which one is a delimiter of
\* the builder's boundaries
MimeTextBodies ==
    { "", "Hello",
      "a\n--" \o AlternativeBoundary \o "\nb",
      "a\n--" \o MixedBoundary \o "--\nb" }

MimeEmailValues ==
    { [ FromAddress      |-> ValidAddr,
        ToAddresses      |-> r.To,
        CCAddresses      |-> r.CC,
        BCCAddresses     |-> r.BCC,
        ReplyToAddresses |-> rt,
        Subject          |-> sub,
        HTMLBody         |-> html,
        TextBody         |-> text,
        Attachments      |-> atts ] :
        r \in MimeRecipients, rt \in MimeReplyTo, sub \in MimeSubjects,
        html \in MimeHTMLBodies, text \in MimeTextBodies,
        atts \in AttachmentLists(MaxAttachments) }

\* the Emails the builder is applied to: every body and attachment list under
\* the plainest headers, and every header under the plainest bodies; each
\* passes GmailSender.validateEmail
MimeEmails ==
    { e \in MimeEmailValues :
        /\ \/ /\ e.ToAddresses = Slice(0, 1)
              /\ e.CCAddresses = NilSlice
              /\ e.BCCAddresses = NilSlice
              /\ e.ReplyToAddresses = << >>
              /\ e.Subject = "Test"
           \/ /\ e.TextBody = "Hello"
              /\ Len(e.Attachments) <= 1
              /\ \A i \in 1..Len(e.Attachments) : e.Attachments[i].FileName = "test.txt"
        /\ GmailSender_validateEmail(e, MimeMemory).err = Nil }

InitMime ==
    /\ pc = "idle"
    /\ adapter = "gmail"
    /\ email \in MimeEmails
    /\ mem0 = MimeMemory
    /\ mem = MimeMemory
    /\ request = Nil
    /\ rpcCount = 0
    /\ rpcErr = Nil
    /\ result = Nil
    /\ mapErr = Nil
    /\ mapOut = Nil
    /\ built = << >>
    /\ NoRace

\* g.createMessage(e) is applied once more
BuildMessage ==
    /\ Len(built) < MaxBuilds
    /\ built' = Append(built, createMessage(email, mem).message)
    /\ UNCHANGED <<callVars, mapErr, mapOut, raceVars, history>>

NextMime == BuildMessage

SpecMime == InitMime /\ [][NextMime]_vars

(***************************************************************************)
(* Two SendEmail calls that run at the same time on one sender.            *)
(*                                                                         *)
(* The callers' memory is read and written a word at a time.  A string in  *)
(* a cell is two words, the pointer to its bytes and its length: a call    *)
(* that reads a cell while the other writes it may get the pointer of one  *)
(* string and the length of another.  A call is a program of steps, one    *)
(* word access or one step on its own registers each, fixed by the slice   *)
(* headers of its Email; the steps of the two calls interleave freely.     *)
(***************************************************************************)
\* the two words of a cell that holds the string a
StringWords(a) == [data |-> a, len |-> Len(a)]

\* a byte read from beyond the bytes of a string
StrayByte == "?"

RECURSIVE StrayBytes(_)
StrayBytes(n) == IF n = 0 THEN "" ELSE StrayByte \o StrayBytes(n - 1)

\* the string that two words denote: len bytes from the pointer on
StringOf(v) ==
    IF v.len <= Len(v.data) THEN SubSeq(v.data, 1, v.len)
    ELSE v.data \o StrayBytes(v.len - Len(v.data))

\* the strings of a memory of words
StringsOf(h) == [c \in Cells |-> StringOf(h[c])]

\* the word accesses of one element
LoadOps(cell, slot) ==
    << [op |-> "load", cell |-> cell, word |-> "data", slot |-> slot],
       [op |-> "load", cell |-> cell, word |-> "len", slot |-> slot] >>

StoreOps(cell, slot) ==
    << [op |-> "store", cell |-> cell, word |-> "data", slot |-> slot],
       [op |-> "store", cell |-> cell, word |-> "len", slot |-> slot] >>

\* the steps f[1], f[2], ..., f[n] one after the other
RECURSIVE Steps(_, _)
Steps(f, n) == IF n = 0 THEN << >> ELSE Steps(f, n - 1) \o f[n]

\* append(dst, src...) as steps: nothing for an empty src; element by
\* element through register 0 into dst's spare capacity when it holds src
\* (from the last element down when dst lies ahead of src and overlaps it, as
\* memmove copies); else dst's elements and then src's are read into a new
\* array, the registers 1, 2, ...  The slice that results is in the callers'
\* memory (heap) or in the registers.
appendSteps(dst, src) ==
    LET n == src.len IN
    IF n = 0 THEN [steps |-> << >>, slice |-> dst]
    ELSE IF dst.heap /\ dst.len + n <= dst.cap
    THEN LET d    == dst.off + dst.len
             back == d > src.off /\ d < src.off + n
             at(k) == IF back THEN n + 1 - k ELSE k
         IN  [steps |-> Steps([k \in 1..n |->
                                  LoadOps(src.off + at(k), 0) \o StoreOps(d + at(k), 0)], n),
              slice |-> [dst EXCEPT !.len = dst.len + n]]
    ELSE [steps |->
              (IF dst.heap
               THEN Steps([k \in 1..dst.len |-> LoadOps(dst.off + k, k)], dst.len)
               ELSE << >>)
              \o Steps([k \in 1..n |-> LoadOps(src.off + k, dst.len + k)], n),
          slice |-> [heap |-> FALSE, off |-> 0, len |-> dst.len + n, cap |-> 0]]

\* the range loop over the scan list: each element is taken into its
\* register (it is there already when the list is a new array) and checked
scanSteps(all) ==
    Steps([k \in 1..all.len |->
              (IF all.heap THEN LoadOps(all.off + k, k) ELSE << >>)
              \o << [op |-> "check", slot |-> k] >>], all.len)

\* the number of recipients of an Email
Total(e) == e.ToAddresses.len + e.CCAddresses.len + e.BCCAddresses.len

\* strings.Join of createMessage on the to, cc and bcc lists: each element
\* is read, into the registers after those of the scan list
joinSteps(e) ==
    LET t == Total(e)
        to  == e.ToAddresses
        cc  == e.CCAddresses
        bcc == e.BCCAddresses
    IN  Steps([k \in 1..to.len |-> LoadOps(to.off + k, t + k)], to.len)
        \o Steps([k \in 1..cc.len |-> LoadOps(cc.off + k, t + to.len + k)], cc.len)
        \o Steps([k \in 1..bcc.len |-> LoadOps(bcc.off + k, t + to.len + cc.len + k)], bcc.len)

\* SendEmail(ctx, e) of the sender as steps: the checks of the from-address
\* and of the number of recipients, the two appends, the scan, the checks of
\* subject and body, the request (the webmail adapter reads the lists for
\* its message), the provider call
Program(sender, e) ==
    LET a1 == appendSteps(HeapSlice(e.ToAddresses), e.CCAddresses)
        a2 == appendSteps(a1.slice, e.BCCAddresses)
    IN  << [op |-> "from"] >>
        \o a1.steps \o a2.steps \o scanSteps(a2.slice)
        \o << [op |-> "fields"] >>
        \o (IF sender = "gmail" THEN joinSteps(e) ELSE << >>)
        \o << [op |-> "request"], [op |-> "rpc"] >>

\* the Email as createMessage reads it, its lists being the strings of the
\* registers that joinSteps filled
JoinedEmail(e) ==
    LET t == Total(e)
    IN  [e EXCEPT !.ToAddresses  = [off |-> t, len |-> e.ToAddresses.len, cap |-> e.ToAddresses.len],
                  !.CCAddresses  = [off |-> t + e.ToAddresses.len, len |-> e.CCAddresses.len,
                                    cap |-> e.CCAddresses.len],
                  !.BCCAddresses = [off |-> t + e.ToAddresses.len + e.CCAddresses.len,
                                    len |-> e.BCCAddresses.len, cap |-> e.BCCAddresses.len]]

\* a step of a call on its own registers: what the call has come to
\* (running on, or returned with a result) and the request it has built
LocalStep(sender, e, slots, step) ==
    LET on == [done |-> FALSE, result |-> Nil, request |-> Nil]
        return(err) == [done |-> TRUE, result |-> err, request |-> Nil]
        addr == StringOf(slots[step.slot])
    IN  CASE step.op = "from" ->
                IF e.FromAddress = ""
                THEN return(NewValidationError(
                         IF sender = "awsses" THEN "from address is required"
                         ELSE "From address is required", Nil))
                ELSE IF sender = "awsses" /\ ~isValidEmailAddress(e.FromAddress)
                THEN return(NewInvalidEmailError("invalid from address format", Nil))
                ELSE IF sender = "gmail" /\ ~ParseAddressOK(e.FromAddress)
                THEN return(NewInvalidEmailError("Invalid from address format",
                                                 ParseAddressError(e.FromAddress)))
                ELSE IF Total(e) = 0
                THEN return(NewValidationError(
                         IF sender = "awsses" THEN "at least one recipient is required"
                         ELSE "At least one recipient is required", Nil))
                ELSE on
          [] step.op = "check" ->
                IF sender = "awsses" /\ ~isValidEmailAddress(addr)
                THEN return(NewInvalidEmailError(
                         Sprintf("invalid recipient address: %s", addr), Nil))
                ELSE IF sender = "gmail" /\ ~ParseAddressOK(addr)
                THEN return(NewInvalidEmailError(
                         Sprintf("Invalid recipient address format: %s", addr),
                         ParseAddressError(addr)))
                ELSE on
          [] step.op = "fields" ->
                IF e.Subject = ""
                THEN return(NewValidationError(
                         IF sender = "awsses" THEN "subject is required"
                         ELSE "Subject is required", Nil))
                ELSE IF e.HTMLBody = "" /\ e.TextBody = ""
                THEN return(NewValidationError(
                         IF sender = "awsses" THEN "email body is required (HTML or text)"
                         ELSE "Email body is required", Nil))
                ELSE on
          [] step.op = "request" ->
                IF sender = "awsses"
                THEN [on EXCEPT !.request = SendEmailInput(e)]
                ELSE LET c == createMessage(JoinedEmail(e),
                                            [k \in DOMAIN slots |-> StringOf(slots[k])])
                     IN  IF c.err # Nil
                         THEN return(NewValidationError("Failed to create message", c.err))
                         ELSE [on EXCEPT !.request = [userID |-> "me", message |-> c.message]]

\* the Emails of the two calls: one address list or two, the to-list with
\* or without spare capacity
RaceEmails ==
    { e \in Emails :
        /\ e.FromAddress = ValidAddr
        /\ e.Subject = "Test"
        /\ e.HTMLBody = ""
        /\ e.TextBody = "Hello"
        /\ Total(e) > 0 }

\* the Emails of one address list, a to-list without spare capacity
PlainRaceEmails ==
    { e \in RaceEmails :
        /\ e.ToAddresses.cap = e.ToAddresses.len
        /\ e.CCAddresses.len = 0
        /\ e.BCCAddresses.len = 0 }

\* the strings in the callers' memory when the calls begin
RaceAddrs == { ValidAddr, NoAtAddr }

\* what the provider answers a call
RaceAnswers(sender) ==
    IF sender = "awsses"
    THEN { Nil, AWSErr(<<APILink("TooManyRequestsException", "Rate limit exceeded")>>) }
    ELSE { Nil, GoogleAPIError(429, "Rate limit exceeded") }

\* a call that has been made and has not run yet
NewCall(sender, e) ==
    [ sender  |-> sender,
      email   |-> e,
      at      |-> 1,
      slots   |-> [k \in 0..(2 * Total(e)) |-> StringWords("")],
      reads   |-> {},
      writes  |-> {},
      request |-> Nil,
      rpcErr  |-> Nil,
      result  |-> Nil,
      done    |-> FALSE ]

\* Two calls are made on one sender: the second with the Email of the first,
\* or with an Email whose to-list lies in the same array.
InitRace ==
    /\ Idle
    /\ mapErr = Nil
    /\ mapOut = Nil
    /\ built = << >>
    /\ heap0 \in [Cells -> { StringWords(a) : a \in RaceAddrs }]
    /\ heap = heap0
    /\ history = << >>
    /\ \E sender \in { "awsses", "gmail" } : \E e1 \in RaceEmails :
          \E e2 \in { e1 } \cup PlainRaceEmails :
          calls = << NewCall(sender, e1), NewCall(sender, e2) >>

\* the step call i is at
StepOf(i) == Program(calls[i].sender, calls[i].email)[calls[i].at]

Running(i) == ~calls[i].done

\* call i reads a word of the callers' memory into a register
Load(i) ==
    /\ Running(i)
    /\ StepOf(i).op = "load"
    /\ LET s == StepOf(i)
           v == IF s.word = "data"
                THEN [calls[i].slots[s.slot] EXCEPT !.data = heap[s.cell].data]
                ELSE [calls[i].slots[s.slot] EXCEPT !.len = heap[s.cell].len]
       IN  calls' = [calls EXCEPT ![i].slots[s.slot] = v,
                                  ![i].reads = @ \cup { s.cell },
                                  ![i].at = @ + 1]
    /\ UNCHANGED <<heap0, heap, callVars, mapErr, mapOut, built, history>>

\* call i writes a word of a register into the callers' memory
Store(i) ==
    /\ Running(i)
    /\ StepOf(i).op = "store"
    /\ LET s == StepOf(i)
       IN  /\ heap' = IF s.word = "data"
                      THEN [heap EXCEPT ![s.cell].data = calls[i].slots[s.slot].data]
                      ELSE [heap EXCEPT ![s.cell].len = calls[i].slots[s.slot].len]
           /\ calls' = [calls EXCEPT ![i].writes = @ \cup { s.cell }, ![i].at = @ + 1]
    /\ UNCHANGED <<heap0, callVars, mapErr, mapOut, built, history>>

\* call i takes a step on its own registers
Local(i) ==
    /\ Running(i)
    /\ StepOf(i).op \in { "from", "check", "fields", "request" }
    /\ LET r == LocalStep(calls[i].sender, calls[i].email, calls[i].slots, StepOf(i))
       IN  calls' = [calls EXCEPT ![i].done = r.done,
                                  ![i].result = r.result,
                                  ![i].request = IF StepOf(i).op = "request" THEN r.request ELSE @,
                                  ![i].at = @ + 1]
    /\ UNCHANGED <<heap0, heap, callVars, mapErr, mapOut, built, history>>

\* the provider answers call i, and the call returns
Answer(i) ==
    /\ Running(i)
    /\ StepOf(i).op = "rpc"
    /\ \E err \in RaceAnswers(calls[i].sender) :
          LET r == IF calls[i].sender = "awsses" THEN AWSSESSender_SendEmail_end(err)
                   ELSE GmailSender_SendEmail_end(err)
          IN  calls' = [calls EXCEPT ![i].done = TRUE,
                                     ![i].rpcErr = err,
                                     ![i].result = r.result,
                                     ![i].at = @ + 1]
    /\ UNCHANGED <<heap0, heap, callVars, mapErr, mapOut, built, history>>

NextRace == \E i \in 1..2 : Load(i) \/ Store(i) \/ Local(i) \/ Answer(i)

SpecRace == InitRace /\ [][NextRace]_vars

(***************************************************************************)
(* SendEmail calls made one after the other on one sender.                 *)
(*                                                                         *)
(* Neither SendEmail stores anything in its sender: AWSSESSender holds the *)
(* client it was built with, GmailSender the service and the token source, *)
(* and SendEmail reads them only.  The calls that returned are kept in     *)
(* history, which no operation of the sender reads.                        *)
(***************************************************************************)
\* the Emails of the calls: the to-list at the start of its array, with or
\* without spare capacity, no cc, a bcc of at most one address, all in the
\* first two cells
SeqEmails ==
    { e \in RaceEmails :
        /\ e.ToAddresses.off = 0
        /\ e.ToAddresses.len <= 1
        /\ e.CCAddresses = NilSlice
        /\ e.BCCAddresses.len <= 1
        /\ \A c \in Span(e.ToAddresses) \cup Span(e.CCAddresses) \cup Span(e.BCCAddresses) :
               c <= 2 }

\* the memories behind such an Email
SeqMemories(e) == { m \in Memories(e) : \A c \in Cells : m[c] \in RaceAddrs }

\* the request as the provider reads it: the cloud request with the lists
\* its slices hold when the call returns, the webmail request as it is
HandedRequest ==
    IF request = Nil THEN Nil
    ELSE IF adapter = "awsses"
    THEN [ request |-> request,
           to  |-> Elems(mem, request.Destination.ToAddresses),
           cc  |-> Elems(mem, request.Destination.CcAddresses),
           bcc |-> Elems(mem, request.Destination.BccAddresses) ]
    ELSE [ request |-> request ]

\* one sender, of either adapter, that has not been called yet
InitSeq ==
    /\ pc = "idle"
    /\ adapter \in { "awsses", "gmail" }
    /\ email = Nil
    /\ mem0 = Nil
    /\ mem = Nil
    /\ request = Nil
    /\ rpcCount = 0
    /\ rpcErr = Nil
    /\ result = Nil
    /\ mapErr = Nil
    /\ mapOut = Nil
    /\ built = << >>
    /\ heap0 = Nil
    /\ heap = Nil
    /\ calls = << >>
    /\ history = << >>

\* the next SendEmail(ctx, e) on the sender, run up to the provider call
SeqCall ==
    /\ pc = "idle"
    /\ Len(history) < MaxCalls
    /\ \E e \in SeqEmails : \E m \in SeqMemories(e) :
         \E r \in { IF adapter = "awsses"
                    THEN AWSSESSender_SendEmail_begin(e, m)
                    ELSE GmailSender_SendEmail_begin(e, m) } :
         /\ email' = e
         /\ mem0' = m
         /\ mem' = r.mem
         /\ pc' = r.pc
         /\ result' = r.result
         /\ request' = r.request
    /\ UNCHANGED <<adapter, rpcCount, rpcErr, mapErr, mapOut, built, raceVars, history>>

\* the provider answers the call and SendEmail runs on
SeqRpc ==
    /\ pc = "rpc"
    /\ \E err \in RaceAnswers(adapter) :
         \E r \in { IF adapter = "awsses"
                    THEN AWSSESSender_SendEmail_end(err)
                    ELSE GmailSender_SendEmail_end(err) } :
         /\ rpcErr' = err
         /\ pc' = r.pc
         /\ result' = r.result
    /\ rpcCount' = rpcCount + 1
    /\ UNCHANGED <<adapter, email, mem0, mem, request, mapErr, mapOut, built, raceVars, history>>

\* the call returns; the sender keeps nothing of it
SeqReturn ==
    /\ pc = "returned"
    /\ history' = Append(history,
                         [ email   |-> email,
                           to      |-> Elems(mem0, email.ToAddresses),
                           cc      |-> Elems(mem0, email.CCAddresses),
                           bcc     |-> Elems(mem0, email.BCCAddresses),
                           mem0    |-> mem0,
                           asked   |-> rpcCount,
                           answer  |-> rpcErr,
                           result  |-> result,
                           handed  |-> HandedRequest ])
    /\ pc' = "idle"
    /\ email' = Nil
    /\ mem0' = Nil
    /\ mem' = Nil
    /\ request' = Nil
    /\ rpcCount' = 0
    /\ rpcErr' = Nil
    /\ result' = Nil
    /\ UNCHANGED <<adapter, mapErr, mapOut, built, raceVars>>

NextSeq == SeqCall \/ SeqRpc \/ SeqReturn

SpecSeq == InitSeq /\ [][NextSeq]_vars

(***************************************************************************)
(* What the properties below speak of.                                     *)
(***************************************************************************)
InCall == pc # "idle"

\* the adapter's address check
AddrOK(a) == IF adapter = "awsses" THEN isValidEmailAddress(a) ELSE ParseAddressOK(a)

\* the recipients the caller passed, to-list then cc-list then bcc-list
Recipients0 ==
    Elems(mem0, email.ToAddresses) \o Elems(mem0, email.CCAddresses)
        \o Elems(mem0, email.BCCAddresses)

\* the verdict of the adapter's validator on the Email as it was passed
Verdict ==
    IF adapter = "awsses" THEN validateEmail(email, mem0).err
    ELSE GmailSender_validateEmail(email, mem0).err

PassesValidation == Verdict = Nil

\* the number of the first of the six checks that the Email as it was passed
\* fails, 0 when it fails none
FirstFailingCheck ==
    IF email.FromAddress = "" THEN 1
    ELSE IF ~AddrOK(email.FromAddress) THEN 2
    ELSE IF Len(Recipients0) = 0 THEN 3
    ELSE IF \E i \in 1..Len(Recipients0) : ~AddrOK(Recipients0[i]) THEN 4
    ELSE IF email.Subject = "" THEN 5
    ELSE IF email.HTMLBody = "" /\ email.TextBody = "" THEN 6
    ELSE 0

\* the first recipient, in scan order, that fails the address check
FirstInvalidRecipient ==
    LET i == CHOOSE k \in 1..Len(Recipients0) :
                 /\ ~AddrOK(Recipients0[k])
                 /\ \A j \in 1..(k - 1) : AddrOK(Recipients0[j])
    IN  Recipients0[i]

\* the reason of each check
CheckReason(k) == IF k \in {2, 4} THEN REASON_INVALID_EMAIL ELSE REASON_VALIDATION_ERROR

\* the message of each check, lower-cased: the adapters word them alike up to
\* case and a trailing remark
CheckMessagePrefix(k) ==
    CASE k = 1 -> "from address is required"
      [] k = 2 -> "invalid from address format"
      [] k = 3 -> "at least one recipient is required"
      [] k = 4 -> "invalid recipient address"
      [] k = 5 -> "subject is required"
      [] k = 6 -> "email body is required"

IsEmailError(err) ==
    /\ err.type = "*email.Error"
    /\ err.Reason \in ErrorReason

(***************************************************************************)
(* C1. Every exit of SendEmail, on either adapter, for every Email and     *)
(* every provider outcome, is no error or one *email.Error whose Reason is *)
(* one of the seven reasons; the provider's native error is never the      *)
(* value returned.                                                         *)
(***************************************************************************)
C1_ReturnsNilOrEmailError ==
    pc = "returned" =>
        \/ result = Nil
        \/ /\ IsEmailError(result)
           /\ result # rpcErr

C1_Witness ==
    /\ pc = "returned"
    /\ rpcErr # Nil
    /\ IsEmailError(result)
    /\ result.Cause = rpcErr

(***************************************************************************)
(* C2. When SendEmail returns the validator's error the provider has been  *)
(* called zero times during the call; the provider is called only after    *)
(* validation passed.                                                      *)
(***************************************************************************)
C2_NoRpcBeforeValidation ==
    /\ (pc = "returned" /\ ~PassesValidation) => (rpcCount = 0 /\ result = Verdict)
    /\ (InCall /\ (pc = "rpc" \/ rpcCount > 0)) => PassesValidation

C2_Witness ==
    /\ pc = "returned"
    /\ ~PassesValidation
    /\ result.Reason = REASON_INVALID_EMAIL
    /\ rpcCount = 0

(***************************************************************************)
(* C3. An Email with an empty from-address, an empty subject, both bodies  *)
(* empty, or no recipient at all is refused with VALIDATION_ERROR by       *)
(* either adapter, whatever its other fields hold.                         *)
(***************************************************************************)
LacksRequiredField ==
    \/ email.FromAddress = ""
    \/ email.Subject = ""
    \/ (email.HTMLBody = "" /\ email.TextBody = "")
    \/ Len(Recipients0) = 0

AllAddressesOK ==
    /\ AddrOK(email.FromAddress)
    /\ \A i \in 1..Len(Recipients0) : AddrOK(Recipients0[i])

\* the claim as stated
C3_AlwaysValidationError ==
    (InCall /\ LacksRequiredField) =>
        /\ pc = "returned"
        /\ IsEmailError(result)
        /\ result.Reason = REASON_VALIDATION_ERROR

\* C3 as amended: such an Email is refused, without a provider call, with
\* VALIDATION_ERROR or INVALID_EMAIL; the reason is VALIDATION_ERROR when the
\* from-address is empty or when the from-address and every recipient pass the
\* adapter's address check, and INVALID_EMAIL when the from-address is
\* non-empty and fails that check.
C3_ValidationErrorUnlessAddressInvalid ==
    (InCall /\ LacksRequiredField) =>
        /\ pc = "returned"
        /\ rpcCount = 0
        /\ IsEmailError(result)
        /\ result.Reason \in { REASON_VALIDATION_ERROR, REASON_INVALID_EMAIL }
        /\ (email.FromAddress = "" \/ AllAddressesOK)
               => result.Reason = REASON_VALIDATION_ERROR
        /\ (email.FromAddress # "" /\ ~AddrOK(email.FromAddress))
               => result.Reason = REASON_INVALID_EMAIL

C3_Witness ==
    /\ pc = "returned"
    /\ email.FromAddress # ""
    /\ AllAddressesOK
    /\ Len(Recipients0) > 0
    /\ email.Subject = ""
    /\ result.Reason = REASON_VALIDATION_ERROR

(***************************************************************************)
(* C4. The validator of either adapter applies its six checks in the order *)
(* from non-empty, from valid, a recipient present, every recipient valid  *)
(* (to-list, then cc-list, then bcc-list), subject non-empty, a body       *)
(* non-empty, and returns the error of the first failing check only: its   *)
(* reason and message are those of the lowest-numbered failing check, and  *)
(* for check 4 the message names the first invalid address in scan order.  *)
(***************************************************************************)
HasSuffix(str, suffix) ==
    /\ Len(suffix) <= Len(str)
    /\ SubSeq(str, Len(str) - Len(suffix) + 1, Len(str)) = suffix

C4_FirstFailingCheckWins ==
    InCall =>
        IF FirstFailingCheck = 0
        THEN pc = "rpc" \/ rpcCount > 0
        ELSE /\ pc = "returned"
             /\ rpcCount = 0
             /\ IsEmailError(result)
             /\ result.Reason = CheckReason(FirstFailingCheck)
             /\ HasPrefix(ToLower(result.Message), CheckMessagePrefix(FirstFailingCheck))
             /\ FirstFailingCheck = 4 => HasSuffix(result.Message, FirstInvalidRecipient)

\* the validator wrote no cell of the caller's memory
MemoryUntouched == mem = mem0

\* C4 for the calls in which the validator left the caller's memory as it was
C4_FirstFailingCheckWinsIfUntouched ==
    (InCall /\ MemoryUntouched) => C4_FirstFailingCheckWins

(***************************************************************************)
(* C5. A SendEmail call on an Email that passes validation calls the       *)
(* provider exactly once, whether that call succeeds or fails; no call     *)
(* ever calls the provider a second time.                                  *)
(***************************************************************************)
C5_ExactlyOneRpc ==
    /\ rpcCount <= 1
    /\ (pc = "returned" /\ PassesValidation) => rpcCount = 1
    /\ (pc = "returned" /\ rpcErr # Nil) => result # Nil

C5_Witness ==
    /\ pc = "returned"
    /\ PassesValidation
    /\ rpcErr # Nil
    /\ rpcCount = 1

(***************************************************************************)
(* C6. For an Email that passes validation, when the provider returns      *)
(* success SendEmail returns no error.                                     *)
(***************************************************************************)
C6_SuccessReturnsNil ==
    (pc = "returned" /\ PassesValidation /\ rpcErr = Nil) => result = Nil

C6_Witness ==
    /\ pc = "returned"
    /\ PassesValidation
    /\ rpcCount = 1
    /\ rpcErr = Nil
    /\ result = Nil

(***************************************************************************)
(* What the properties of the mappers speak of.                            *)
(***************************************************************************)
Mapped      == mapOut # Nil
MappedAWS   == Mapped /\ mapErr.type = "aws"
MappedGmail(code) == Mapped /\ mapErr.type = "*googleapi.Error" /\ mapErr.Code = code

\* the native message contains the word, whatever the case of its letters
Says(word) == Contains(ToLower(mapErr.Message), word)

\* the cloud mapper's table
AWSCodeReason(code) ==
    CASE code = "TooManyRequestsException"           -> REASON_RATE_LIMITED
      [] code = "MessageRejected"                    -> REASON_MESSAGE_REJECTED
      [] code = "MailFromDomainNotVerifiedException" -> REASON_UNVERIFIED_DOMAIN
      [] code = "InvalidParameterValueException"     -> REASON_INVALID_EMAIL
      [] code = "ServiceUnavailableException"        -> REASON_SERVICE_ERROR
      [] code = "InternalServiceErrorException"      -> REASON_SERVICE_ERROR
      [] OTHER                                       -> REASON_UNKNOWN

\* the error code a cloud error exposes as an API error ("none": it is none)
APICodeOf(err) ==
    IF \E i \in 1..Len(err.chain) : err.chain[i].type = "smithy.APIError"
    THEN LET i == CHOOSE k \in 1..Len(err.chain) :
                      /\ err.chain[k].type = "smithy.APIError"
                      /\ \A j \in 1..(k - 1) : err.chain[j].type # "smithy.APIError"
         IN  <<"api", err.chain[i].Code>>
    ELSE <<"none", "">>

(***************************************************************************)
(* C7. categorizeAWSError maps a native API error by exact match of its    *)
(* error code (the six listed codes to their reasons), every other code    *)
(* and every error that is no API error to UNKNOWN, and its result never   *)
(* depends on the text of the error's message.                             *)
(***************************************************************************)
C7_CloudMapperByExactCode ==
    MappedAWS =>
        /\ IsEmailError(mapOut)
        /\ mapOut.Reason =
              IF APICodeOf(mapErr)[1] = "api" THEN AWSCodeReason(APICodeOf(mapErr)[2])
              ELSE REASON_UNKNOWN
        /\ \A other \in AWSErrors :
              APICodeOf(other) = APICodeOf(mapErr) =>
                  /\ categorizeAWSError(other).Reason = mapOut.Reason
                  /\ categorizeAWSError(other).Message = mapOut.Message

C7_Witness ==
    /\ MappedAWS
    /\ APICodeOf(mapErr) = <<"api", "MessageRejectedException">>
    /\ mapOut.Reason = REASON_UNKNOWN

(***************************************************************************)
(* C8. Every webmail error with status 403 whose message contains          *)
(* "blocked", in any case of letters, is mapped to MESSAGE_REJECTED.       *)
(***************************************************************************)
\* the claim as stated
C8_BlockedIsMessageRejected ==
    (MappedGmail(403) /\ Says("blocked")) => mapOut.Reason = REASON_MESSAGE_REJECTED

\* C8 as amended: every webmail error with status 403 whose message contains
\* "blocked" and none of "scope", "permission" and "domain" is mapped to
\* MESSAGE_REJECTED.
C8_BlockedAloneIsMessageRejected ==
    (MappedGmail(403) /\ Says("blocked")
        /\ ~Says("scope") /\ ~Says("permission") /\ ~Says("domain"))
    => (IsEmailError(mapOut) /\ mapOut.Reason = REASON_MESSAGE_REJECTED)

C8_Witness ==
    /\ MappedGmail(403)
    /\ mapErr.Message = "BLOCKED teapot"
    /\ mapOut.Reason = REASON_MESSAGE_REJECTED

(***************************************************************************)
(* C9. For status 403 the lower-cased message is tested in the priority    *)
(* "scope" or "permission" -> UNVERIFIED_DOMAIN, else "domain" ->          *)
(* UNVERIFIED_DOMAIN, else "blocked" -> MESSAGE_REJECTED, else             *)
(* UNVERIFIED_DOMAIN ("Permission denied"); an earlier match wins, so      *)
(* MESSAGE_REJECTED results exactly when "blocked" is present and none of  *)
(* "scope", "permission", "domain" is.                                     *)
(***************************************************************************)
C9_Priority403 ==
    MappedGmail(403) =>
        /\ IsEmailError(mapOut)
        /\ (Says("scope") \/ Says("permission")) =>
              /\ mapOut.Reason = REASON_UNVERIFIED_DOMAIN
              /\ mapOut.Message = "Insufficient permissions to send email"
        /\ (~Says("scope") /\ ~Says("permission") /\ Says("domain")) =>
              /\ mapOut.Reason = REASON_UNVERIFIED_DOMAIN
              /\ mapOut.Message = "Domain policy prevents sending"
        /\ (~Says("scope") /\ ~Says("permission") /\ ~Says("domain") /\ ~Says("blocked")) =>
              /\ mapOut.Reason = REASON_UNVERIFIED_DOMAIN
              /\ mapOut.Message = "Permission denied"
        /\ (mapOut.Reason = REASON_MESSAGE_REJECTED) <=>
              (Says("blocked") /\ ~Says("scope") /\ ~Says("permission") /\ ~Says("domain"))

C9_Witness ==
    /\ MappedGmail(403)
    /\ Says("blocked")
    /\ Says("domain")
    /\ ~Says("scope")
    /\ ~Says("permission")
    /\ mapOut.Message = "Domain policy prevents sending"

(***************************************************************************)
(* C10. For status 400 the lower-cased message is tested in the priority   *)
(* "invalid" with one of "recipient", "email", "address" -> INVALID_EMAIL, *)
(* else "malformed" or "encoding" -> VALIDATION_ERROR (invalid message     *)
(* format), else "too large" or "size" -> VALIDATION_ERROR (message too    *)
(* large), else VALIDATION_ERROR (invalid request parameters);             *)
(* INVALID_EMAIL wins over the later rules, and "invalid" alone does not   *)
(* yield INVALID_EMAIL.                                                    *)
(***************************************************************************)
SaysInvalidAddress ==
    Says("invalid") /\ (Says("recipient") \/ Says("email") \/ Says("address"))

C10_Priority400 ==
    MappedGmail(400) =>
        /\ IsEmailError(mapOut)
        /\ SaysInvalidAddress <=> mapOut.Reason = REASON_INVALID_EMAIL
        /\ ~SaysInvalidAddress => mapOut.Reason = REASON_VALIDATION_ERROR
        /\ (~SaysInvalidAddress /\ (Says("malformed") \/ Says("encoding"))) =>
              mapOut.Message = "Invalid message format"
        /\ (~SaysInvalidAddress /\ ~Says("malformed") /\ ~Says("encoding")
               /\ (Says("too large") \/ Says("size"))) =>
              mapOut.Message = "Message too large"
        /\ (~SaysInvalidAddress /\ ~Says("malformed") /\ ~Says("encoding")
               /\ ~Says("too large") /\ ~Says("size")) =>
              mapOut.Message = "Invalid request parameters"

C10_Witness ==
    /\ MappedGmail(400)
    /\ SaysInvalidAddress
    /\ Says("malformed")
    /\ mapOut.Reason = REASON_INVALID_EMAIL

\* "invalid" without a word for an address falls through to the later rules
C10_WitnessInvalidAlone ==
    /\ MappedGmail(400)
    /\ Says("invalid")
    /\ ~SaysInvalidAddress
    /\ Says("size")
    /\ mapOut.Message = "Message too large"

(***************************************************************************)
(* C11. For a webmail error with a status other than 400 and 403 the       *)
(* reason mapGmailError returns is decided by the status code alone,       *)
(* whatever the message says: 401 -> VALIDATION_ERROR, 429 ->              *)
(* RATE_LIMITED, 500, 503 and 504 -> SERVICE_ERROR, every other status ->  *)
(* SERVICE_ERROR with the status code in the error message.                *)
(***************************************************************************)
\* the reason of each status code other than 400 and 403
GmailCodeReason(code) ==
    CASE code = 401 -> REASON_VALIDATION_ERROR
      [] code = 429 -> REASON_RATE_LIMITED
      [] code \in {500, 503, 504} -> REASON_SERVICE_ERROR
      [] OTHER -> REASON_SERVICE_ERROR

MappedGmailAPI == Mapped /\ mapErr.type = "*googleapi.Error"

C11_StatusAloneDecides ==
    (MappedGmailAPI /\ mapErr.Code \notin {400, 403}) =>
        /\ IsEmailError(mapOut)
        /\ mapOut.Reason = GmailCodeReason(mapErr.Code)
        /\ (mapErr.Code = 404) => mapOut.Message = "Gmail API error (HTTP 404)"
        /\ (mapErr.Code = 418) => mapOut.Message = "Gmail API error (HTTP 418)"

\* a 429 whose message names neither a quota nor a rate, and a status the
\* mapper has no case for
C11_Witness ==
    /\ MappedGmail(429)
    /\ ~Says("quota")
    /\ ~Says("rate")
    /\ Says("network")
    /\ mapOut.Reason = REASON_RATE_LIMITED

C11_WitnessOtherStatus ==
    /\ MappedGmail(418)
    /\ Says("quota")
    /\ mapOut.Reason = REASON_SERVICE_ERROR
    /\ mapOut.Message = "Gmail API error (HTTP 418)"

(***************************************************************************)
(* C12. For a webmail error that is no googleapi.Error, mapGmailError      *)
(* reads the lower-cased error text: both "context" and "deadline" ->      *)
(* SERVICE_ERROR (timeout); else "connection" or "network" ->              *)
(* SERVICE_ERROR (network); otherwise UNKNOWN.                             *)
(***************************************************************************)
MappedGmailPlain == Mapped /\ mapErr.type = "error"

C12_PlainErrorByText ==
    MappedGmailPlain =>
        /\ IsEmailError(mapOut)
        /\ (Says("context") /\ Says("deadline")) =>
              /\ mapOut.Reason = REASON_SERVICE_ERROR
              /\ mapOut.Message = "Request timeout"
        /\ (~(Says("context") /\ Says("deadline"))
               /\ (Says("connection") \/ Says("network"))) =>
              /\ mapOut.Reason = REASON_SERVICE_ERROR
              /\ mapOut.Message = "Network error"
        /\ (~(Says("context") /\ Says("deadline"))
               /\ ~Says("connection") /\ ~Says("network")) =>
              /\ mapOut.Reason = REASON_UNKNOWN
              /\ mapOut.Message = "Gmail API error"

\* "context" without "deadline" is no timeout
C12_Witness ==
    /\ MappedGmailPlain
    /\ Says("context")
    /\ ~Says("deadline")
    /\ ~Says("connection")
    /\ ~Says("network")
    /\ mapOut.Reason = REASON_UNKNOWN

\* the timeout rule wins over the network rule
C12_WitnessTimeoutFirst ==
    /\ MappedGmailPlain
    /\ Says("context")
    /\ Says("deadline")
    /\ Says("network")
    /\ mapOut.Message = "Request timeout"

(***************************************************************************)
(* C13. When the provider call fails with the plain error                  *)
(* "context canceled" or "context deadline exceeded", SendEmail of the     *)
(* webmail adapter returns SERVICE_ERROR in both cases and SendEmail of    *)
(* the cloud adapter returns UNKNOWN in both cases.                        *)
(***************************************************************************)
ContextErrorTexts == { "context canceled", "context deadline exceeded" }

\* the provider call of this SendEmail failed with a plain context error
FailedOnContext ==
    /\ pc = "returned"
    /\ rpcCount = 1
    /\ \/ rpcErr \in { PlainError(t) : t \in ContextErrorTexts }
       \/ rpcErr \in { AWSErr(<<PlainLink(t)>>) : t \in ContextErrorTexts }

C13_ContextErrorReasons ==
    FailedOnContext =>
        /\ IsEmailError(result)
        /\ adapter = "gmail" => result.Reason = REASON_SERVICE_ERROR
        /\ adapter = "awsses" => result.Reason = REASON_UNKNOWN

\* what the code does hold to: the cloud adapter returns UNKNOWN in both
\* cases, the webmail adapter SERVICE_ERROR for the expired deadline
C13_ContextErrorReasonsButCancelled ==
    FailedOnContext =>
        /\ IsEmailError(result)
        /\ (adapter = "gmail" /\ rpcErr.Message = "context deadline exceeded")
              => result.Reason = REASON_SERVICE_ERROR
        /\ adapter = "awsses" => result.Reason = REASON_UNKNOWN

(***************************************************************************)
(* C14. Whenever the provider call returns a native error, the error       *)
(* SendEmail returns is an *email.Error whose Cause is that native error:  *)
(* Unwrap yields the provider's error unchanged, on both adapters and      *)
(* from every return of both mappers.                                      *)
(***************************************************************************)
C14_CauseIsNativeError ==
    (pc = "returned" /\ rpcErr # Nil) =>
        /\ IsEmailError(result)
        /\ Unwrap(result) = rpcErr

C14_Witness ==
    /\ pc = "returned"
    /\ adapter = "gmail"
    /\ rpcErr = GoogleAPIError(418, "I'm a teapot")
    /\ result.Message = "Gmail API error (HTTP 418)"
    /\ Unwrap(result) = rpcErr

(***************************************************************************)
(* What the properties of the message builder speak of: the message as its *)
(* receiver reads it.                                                      *)
(***************************************************************************)
\* the character of each byte ("?" for a byte that is none of the above)
CharOfByte ==
    [b \in 0..255 |->
        IF b = 9 THEN "\t"
        ELSE IF b = 10 THEN "\n"
        ELSE IF b = 13 THEN "\r"
        ELSE IF b \in 32..95 THEN CharAt(PrintableChars, b - 31)
        ELSE IF b \in 97..126 THEN CharAt(PrintableChars, b - 32)
        ELSE "?"]

\* the text of a sequence of bytes
RECURSIVE String(_)
String(b) ==
    IF Len(b) = 0 THEN ""
    ELSE IF Len(b) = 1 THEN CharOfByte[b[1]]
    ELSE LET h == Len(b) \div 2
         IN  String(SubSeq(b, 1, h)) \o String(SubSeq(b, h + 1, Len(b)))

\* the value of each character of a base64 alphabet
DecodeIndex(enc) ==
    [c \in { CharAt(enc, k) : k \in 1..Len(enc) } |->
        (CHOOSE k \in 1..Len(enc) : CharAt(enc, k) = c) - 1]

StdIndex == DecodeIndex(StdEncoding)
URLIndex == DecodeIndex(URLEncoding)

\* s is base64 text of the alphabet: groups of four characters, padding at
\* the end only
IsBase64(idx, s) ==
    /\ Len(s) % 4 = 0
    /\ \A i \in 1..Len(s) :
          \/ CharAt(s, i) \in DOMAIN idx
          \/ /\ CharAt(s, i) = "="
             /\ i >= Len(s) - 1
             /\ (i = Len(s) - 1 => CharAt(s, Len(s)) = "=")

\* the bytes that four characters encode
DecodeGroup(idx, g) ==
    LET val(k) == IF CharAt(g, k) \in DOMAIN idx THEN idx[CharAt(g, k)] ELSE 0
        v == val(1) * 262144 + val(2) * 4096 + val(3) * 64 + val(4)
        n == IF CharAt(g, 3) = "=" THEN 1 ELSE IF CharAt(g, 4) = "=" THEN 2 ELSE 3
    IN  SubSeq(<< v \div 65536, (v \div 256) % 256, v % 256 >>, 1, n)

\* the bytes that base64 text encodes
RECURSIVE DecodeString(_, _)
DecodeString(idx, s) ==
    IF Len(s) < 4 THEN << >>
    ELSE IF Len(s) < 8 THEN DecodeGroup(idx, SubSeq(s, 1, 4))
    ELSE LET h == 4 * ((Len(s) \div 4) \div 2)
         IN  DecodeString(idx, SubSeq(s, 1, h)) \o DecodeString(idx, SubSeq(s, h + 1, Len(s)))

\* the text between the line feeds of s, in order
RECURSIVE SplitLF(_)
SplitLF(s) ==
    IF Len(s) = 0 THEN << "" >>
    ELSE IF Len(s) = 1 THEN (IF s = "\n" THEN << "", "" >> ELSE << s >>)
    ELSE LET h == Len(s) \div 2
             L == SplitLF(SubSeq(s, 1, h))
             R == SplitLF(SubSeq(s, h + 1, Len(s)))
         IN  SubSeq(L, 1, Len(L) - 1) \o << L[Len(L)] \o R[1] >> \o Tail(R)

EndsWithCR(line) == Len(line) > 0 /\ CharAt(line, Len(line)) = "\r"

\* a line without the carriage return that may end it
Chomp(line) == IF EndsWithCR(line) THEN SubSeq(line, 1, Len(line) - 1) ELSE line

\* the smallest element of a non-empty set of numbers, and the elements of
\* a set of numbers in rising order
Min(S) == CHOOSE k \in S : \A j \in S : k <= j

RECURSIVE Sorted(_)
Sorted(S) == IF S = {} THEN << >> ELSE << Min(S) >> \o Sorted(S \ { Min(S) })

\* A built message as it is read: decoded, cut into lines at the line feeds
\* (a line is ended by CR LF or by LF alone, as lenient readers accept), the
\* header block up to the first empty line, the body after it.
Read(message) ==
    LET raw   == String(DecodeString(URLIndex, message.Raw))
        ended == SplitLF(raw)
        lines == [i \in 1..Len(ended) |-> Chomp(ended[i])]
        blank == Min({ i \in 1..Len(lines) : lines[i] = "" } \cup { Len(lines) + 1 })
    IN  [ raw     |-> raw,
          ended   |-> ended,
          headers |-> SubSeq(lines, 1, blank - 1),
          body    |-> SubSeq(lines, blank + 1, Len(lines)) ]

\* the name of a header line, and its value
HeaderName(line) ==
    LET P == { k \in 1..Len(line) : CharAt(line, k) = ":" }
    IN  IF P = {} THEN line ELSE SubSeq(line, 1, Min(P) - 1)

HeaderValue(line) == SubSeq(line, Len(HeaderName(line)) + 3, Len(line))

\* the values of the headers of that name among the lines
HeaderValues(lines, name) ==
    LET I == Sorted({ i \in 1..Len(lines) : HeaderName(lines[i]) = name })
    IN  [k \in 1..Len(I) |-> HeaderValue(lines[I[k]])]

\* The parts of a multipart body: a part begins after a delimiter line
\* "--boundary" and runs to the next delimiter line or to the closing line
\* "--boundary--"; what follows the first closing line belongs to no part.
\* A part is its header lines, up to its first empty line, and its body.
Parts(body, boundary) ==
    LET closing == { i \in 1..Len(body) : body[i] = "--" \o boundary \o "--" }
        end     == Min(closing \cup { Len(body) + 1 })
        starts  == Sorted({ i \in 1..Len(body) : body[i] = "--" \o boundary /\ i < end })
        part(k) ==
            LET from  == starts[k] + 1
                to    == (IF k < Len(starts) THEN starts[k + 1] ELSE end) - 1
                lines == SubSeq(body, from, to)
                blank == Min({ i \in 1..Len(lines) : lines[i] = "" } \cup { Len(lines) + 1 })
            IN  [ headers |-> SubSeq(lines, 1, blank - 1),
                  body    |-> SubSeq(lines, blank + 1, Len(lines)) ]
    IN  [ closed |-> closing # {},
          parts  |-> [k \in 1..Len(starts) |-> part(k)] ]

\* the state holds a message built from email
Built == Len(built) > 0

BothBodies  == email.HTMLBody # "" /\ email.TextBody # ""
Attached    == Len(email.Attachments) > 0

\* the text of a body of the Email holds a delimiter of the boundary
BodySays(boundary) ==
    \/ Contains(email.HTMLBody, "--" \o boundary)
    \/ Contains(email.TextBody, "--" \o boundary)

PlainPartHeaders ==
    << "Content-Type: text/plain; charset=utf-8", "Content-Transfer-Encoding: 8bit" >>
HTMLPartHeaders ==
    << "Content-Type: text/html; charset=utf-8", "Content-Transfer-Encoding: 8bit" >>

\* the message is a multipart/alternative message of exactly two parts, the
\* text/plain part and then the text/html part
IsTwoPartAlternative(message) ==
    LET r == Read(message)
        p == Parts(r.body, AlternativeBoundary)
    IN  /\ IsBase64(URLIndex, message.Raw)
        /\ HeaderValues(r.headers, "Content-Type")
              = << "multipart/alternative; boundary=" \o AlternativeBoundary >>
        /\ p.closed
        /\ Len(p.parts) = 2
        /\ p.parts[1].headers = PlainPartHeaders
        /\ p.parts[2].headers = HTMLPartHeaders

(***************************************************************************)
(* C15. For every Email with both bodies non-empty and no attachments the  *)
(* message built by createMessage, base64url-decoded, has the top-level    *)
(* Content-Type multipart/alternative, and its body, split at the          *)
(* delimiter lines of that boundary, is exactly two parts: text/plain      *)
(* first, text/html second, each charset=utf-8 and 8bit.                   *)
(***************************************************************************)
\* the claim as stated
C15_AlternativeHasTwoParts ==
    (Built /\ BothBodies /\ ~Attached) => IsTwoPartAlternative(built[1])

\* C15 as amended: the same for every such Email of which no body holds the
\* text "--boundary123456789".
C15_AlternativeHasTwoPartsUnlessDelimiterInBody ==
    (Built /\ BothBodies /\ ~Attached /\ ~BodySays(AlternativeBoundary))
        => IsTwoPartAlternative(built[1])

C15_Witness ==
    /\ Built
    /\ BothBodies
    /\ ~Attached
    /\ ~BodySays(AlternativeBoundary)
    /\ BodySays(MixedBoundary)
    /\ Len(Parts(Read(built[1]).body, AlternativeBoundary).parts) = 2
    /\ Parts(Read(built[1]).body, AlternativeBoundary).parts[1].body
          = << "a", "--" \o MixedBoundary \o "--", "b", "" >>
    /\ Parts(Read(built[1]).body, AlternativeBoundary).parts[2].body
          = << "<p>Hello</p>", "" >>

(***************************************************************************)
(* C16. For every Email with n >= 1 attachments, whatever its bodies, the  *)
(* decoded message has the top-level Content-Type multipart/mixed, and its *)
(* body, split at the delimiter lines of the mixed boundary, is exactly    *)
(* 1 + n parts: the body part first, then one part per attachment in the   *)
(* order of the input.                                                     *)
(***************************************************************************)
\* the lines of a text
TextLines(text) == LET l == SplitLF(text) IN [i \in 1..Len(l) |-> Chomp(l[i])]

\* the part is the one the builder writes for the attachment
IsPartOf(part, attachment) ==
    /\ HeaderValues(part.headers, "Content-Disposition")
          = << "attachment; filename=\"" \o attachment.FileName \o "\"" >>
    /\ part.body = << EncodeToString(StdEncoding, attachment.Content) >>

IsMixedOfBodyAndAttachments(message) ==
    LET r == Read(message)
        p == Parts(r.body, MixedBoundary)
        n == Len(email.Attachments)
    IN  /\ IsBase64(URLIndex, message.Raw)
        /\ HeaderValues(r.headers, "Content-Type")
              = << "multipart/mixed; boundary=" \o MixedBoundary >>
        /\ p.closed
        /\ Len(p.parts) = 1 + n
        /\ p.parts[1].body = TextLines(bodyShape(email).body)
        /\ \A k \in 1..n : IsPartOf(p.parts[k + 1], email.Attachments[k])

\* the claim as stated
C16_MixedHasBodyAndAttachmentParts ==
    (Built /\ Attached) => IsMixedOfBodyAndAttachments(built[1])

\* C16 as amended: the same for every such Email of which no body holds the
\* text "--mixed_boundary_123456789".
C16_MixedHasBodyAndAttachmentPartsUnlessDelimiterInBody ==
    (Built /\ Attached /\ ~BodySays(MixedBoundary)) => IsMixedOfBodyAndAttachments(built[1])

\* two different attachments under a body of both shapes, whose text holds a
\* delimiter of the other boundary
C16_Witness ==
    /\ Built
    /\ Len(email.Attachments) = 2
    /\ email.Attachments[1].FileName = "my file (1);v=2.pdf"
    /\ email.Attachments[2].FileName = "test.txt"
    /\ BothBodies
    /\ BodySays(AlternativeBoundary)
    /\ Len(Parts(Read(built[1]).body, MixedBoundary).parts) = 3
    /\ IsPartOf(Parts(Read(built[1]).body, MixedBoundary).parts[3], email.Attachments[2])

(***************************************************************************)
(* C17. For every attachment of an Email, the attachment's part of the     *)
(* message carries Content-Transfer-Encoding base64 and a body whose       *)
(* standard-base64 decoding is the attachment's Content byte for byte, and *)
(* the name parameter of its Content-Type and the filename parameter of    *)
(* its Content-Disposition hold the FileName verbatim.                     *)
(***************************************************************************)
\* the part the builder wrote for the k-th of n attachments: the parts of
\* the attachments are the last n sections that begin at a delimiter line of
\* the mixed boundary, each running to the next delimiter or closing line
AttachmentSection(body, n, k) ==
    LET starts == Sorted({ i \in 1..Len(body) : body[i] = "--" \o MixedBoundary })
        stops  == { i \in 1..Len(body) :
                      body[i] \in { "--" \o MixedBoundary, "--" \o MixedBoundary \o "--" } }
        from   == starts[Len(starts) - n + k]
        to     == Min({ i \in stops : i > from } \cup { Len(body) + 1 })
        lines  == SubSeq(body, from + 1, to - 1)
        blank  == Min({ i \in 1..Len(lines) : lines[i] = "" } \cup { Len(lines) + 1 })
    IN  [ headers |-> SubSeq(lines, 1, blank - 1),
          body    |-> SubSeq(lines, blank + 1, Len(lines)) ]

\* the text between key=" and the quote that ends the header value
Param(value, key) ==
    LET open == key \o "=\""
        P    == { i \in 1..Len(value) :
                    /\ i + Len(open) - 1 <= Len(value)
                    /\ SubSeq(value, i, i + Len(open) - 1) = open
                    /\ (i = 1 \/ CharAt(value, i - 1) = " ") }
    IN  IF P = {} \/ CharAt(value, Len(value)) # "\"" THEN "\n(no parameter)"
        ELSE SubSeq(value, Min(P) + Len(open), Len(value) - 1)

\* the text before the first ";" of a header value
MediaType(value) ==
    LET P == { i \in 1..Len(value) : CharAt(value, i) = ";" }
    IN  IF P = {} THEN value ELSE SubSeq(value, 1, Min(P) - 1)

AttachmentRoundTrip(message, k) ==
    LET a    == email.Attachments[k]
        part == AttachmentSection(Read(message).body, Len(email.Attachments), k)
        type == HeaderValues(part.headers, "Content-Type")
        disp == HeaderValues(part.headers, "Content-Disposition")
    IN  /\ HeaderValues(part.headers, "Content-Transfer-Encoding") = << "base64" >>
        /\ Len(part.body) = 1
        /\ IsBase64(StdIndex, part.body[1])
        /\ DecodeString(StdIndex, part.body[1]) = a.Content
        /\ Len(type) = 1
        /\ MediaType(type[1]) = a.ContentType
        /\ Param(type[1], "name") = a.FileName
        /\ Len(disp) = 1
        /\ MediaType(disp[1]) = "attachment"
        /\ Param(disp[1], "filename") = a.FileName

C17_AttachmentRoundTrip ==
    (Built /\ Attached) =>
        \A k \in 1..Len(email.Attachments) : AttachmentRoundTrip(built[1], k)

\* binary content whose encoding differs between the two alphabets, and a
\* file name with a space, brackets, a semicolon and an equals sign
C17_Witness ==
    /\ Built
    /\ Len(email.Attachments) = 2
    /\ email.Attachments[2].FileName = "my file (1);v=2.pdf"
    /\ email.Attachments[2].Content = <<251, 255, 190, 0, 63>>
    /\ AttachmentSection(Read(built[1]).body, 2, 2).body = << "+/++AD8=" >>
    /\ Param(HeaderValues(AttachmentSection(Read(built[1]).body, 2, 2).headers,
                          "Content-Disposition")[1], "filename") = "my file (1);v=2.pdf"

(***************************************************************************)
(* C18. For every Email the header block of the message lists its headers  *)
(* in the order From, To (the addresses joined by ", "), Subject,          *)
(* MIME-Version: 1.0, then Cc, Bcc and Reply-To in that order, each        *)
(* present exactly when its address list is non-empty, then Content-Type;  *)
(* From, To, Subject and MIME-Version are always present.                  *)
(***************************************************************************)
\* the names of the headers the Email calls for, up to Content-Type
HeaderNamesOf(e) ==
    << "From", "To", "Subject", "MIME-Version" >>
    \o (IF e.CCAddresses.len > 0 THEN << "Cc" >> ELSE << >>)
    \o (IF e.BCCAddresses.len > 0 THEN << "Bcc" >> ELSE << >>)
    \o (IF Len(e.ReplyToAddresses) > 0 THEN << "Reply-To" >> ELSE << >>)
    \o << "Content-Type" >>

\* the addresses of a list, with ", " between them
CommaJoined(addrs) ==
    IF Len(addrs) = 0 THEN ""
    ELSE LET rest[i \in 1..Len(addrs)] ==
                 IF i = Len(addrs) THEN addrs[i] ELSE addrs[i] \o ", " \o rest[i + 1]
         IN  rest[1]

HeaderBlockInOrder(message) ==
    LET h     == Read(message).headers
        names == [i \in 1..Len(h) |-> HeaderName(h[i])]
        want  == HeaderNamesOf(email)
    IN  /\ Len(names) >= Len(want)
        /\ SubSeq(names, 1, Len(want)) = want
        /\ \A i \in (Len(want) + 1)..Len(names) : names[i] \notin { want[k] : k \in 1..Len(want) }
        /\ HeaderValues(h, "From") = << email.FromAddress >>
        /\ HeaderValues(h, "To") = << CommaJoined(Elems(mem, email.ToAddresses)) >>
        /\ HeaderValues(h, "MIME-Version") = << "1.0" >>
        /\ email.CCAddresses.len > 0 =>
              HeaderValues(h, "Cc") = << CommaJoined(Elems(mem, email.CCAddresses)) >>
        /\ email.BCCAddresses.len > 0 =>
              HeaderValues(h, "Bcc") = << CommaJoined(Elems(mem, email.BCCAddresses)) >>
        /\ Len(email.ReplyToAddresses) > 0 =>
              HeaderValues(h, "Reply-To") = << CommaJoined(email.ReplyToAddresses) >>

C18_HeaderOrder == Built => HeaderBlockInOrder(built[1])

\* no To address, a Cc and a Bcc address, two Reply-To strings, attachments
C18_Witness ==
    /\ Built
    /\ email.ToAddresses.len = 0
    /\ email.CCAddresses.len = 1
    /\ email.BCCAddresses.len = 1
    /\ Len(email.ReplyToAddresses) = 2
    /\ Attached
    /\ Read(built[1]).headers =
          << "From: x@y.z", "To: ", "Subject: Test", "MIME-Version: 1.0",
             "Cc: a@b", "Bcc: x@y.z", "Reply-To: , invalid-email",
             "Content-Type: multipart/mixed; boundary=mixed_boundary_123456789",
             "Content-Transfer-Encoding: 8bit" >>

\* a To list of two addresses and the encoded subject
C18_WitnessJoined ==
    /\ Built
    /\ email.ToAddresses.len = 2
    /\ email.Subject # "Test"
    /\ SubSeq(Read(built[1]).headers, 1, 4) =
          << "From: x@y.z", "To: x@y.z, a@b",
             "Subject: =?utf-8?q?Hi=0ABcc:_q@y.z?=", "MIME-Version: 1.0" >>

(***************************************************************************)
(* C19. For every Email and every shape of body the raw message is the     *)
(* header block, an empty line and the body, and every line of it, the     *)
(* delimiter lines and the part headers included, is ended by CR LF: the   *)
(* builder writes no line feed without a carriage return before it.  The   *)
(* whole is base64url-encoded.                                             *)
(***************************************************************************)
\* the Email's own texts hold no line feed, so that every line ending of the
\* message is the builder's
NoLineFeedInBodies ==
    /\ ~Contains(email.HTMLBody, "\n")
    /\ ~Contains(email.TextBody, "\n")

\* every line feed of the message follows a carriage return
EveryLineEndsWithCRLF(message) ==
    LET ended == Read(message).ended
    IN  \A i \in 1..(Len(ended) - 1) : EndsWithCR(ended[i])

\* the claim as stated
C19_EveryLineEndsWithCRLF ==
    (Built /\ NoLineFeedInBodies) =>
        /\ IsBase64(URLIndex, built[1].Raw)
        /\ EveryLineEndsWithCRLF(built[1])

\* what the code does hold to: the lines of a message of a single body
\* without attachments end with CR LF
C19_SinglePartEndsLinesWithCRLF ==
    (Built /\ NoLineFeedInBodies /\ ~BothBodies /\ ~Attached) =>
        /\ IsBase64(URLIndex, built[1].Raw)
        /\ EveryLineEndsWithCRLF(built[1])

(***************************************************************************)
(* C20. Building the message twice from the same Email yields the same     *)
(* bytes: the builder reads nothing but the Email, its boundary tokens are *)
(* fixed, and the token of the alternative envelope differs from the token *)
(* of the mixed envelope.                                                  *)
(***************************************************************************)
\* the boundary the top-level Content-Type declares
DeclaredBoundary(message) ==
    LET v == HeaderValues(Read(message).headers, "Content-Type")[1]
        P == { i \in 1..Len(v) : i + 8 <= Len(v) /\ SubSeq(v, i, i + 8) = "boundary=" }
    IN  IF P = {} THEN "" ELSE SubSeq(v, Min(P) + 9, Len(v))

PassedRecipients ==
    LET to  == Elems(mem0, email.ToAddresses)
        cc  == Elems(mem0, email.CCAddresses)
        bcc == Elems(mem0, email.BCCAddresses)
    IN  IF adapter = "awsses" THEN << to, cc, bcc >>
        ELSE << << CommaJoined(to) >>,
                IF Len(cc) > 0 THEN << CommaJoined(cc) >> ELSE << >>,
                IF Len(bcc) > 0 THEN << CommaJoined(bcc) >> ELSE << >> >>

\* the lists the provider is handed: the cloud request's slices as the
\* provider reads them, the webmail message's To, Cc and Bcc headers
HandedRecipients ==
    IF adapter = "awsses"
    THEN << Elems(mem, request.Destination.ToAddresses),
            Elems(mem, request.Destination.CcAddresses),
            Elems(mem, request.Destination.BccAddresses) >>
    ELSE LET h == Read(request.message).headers
         IN  << HeaderValues(h, "To"), HeaderValues(h, "Cc"), HeaderValues(h, "Bcc") >>

C21_CallerEmailUnchanged ==
    InCall =>
        /\ \A c \in Cells : mem[c] = mem0[c]
        /\ request # Nil => HandedRecipients = PassedRecipients

\* the to-list has no spare capacity, as a slice literal has none
ToListClipped == email.ToAddresses.cap = email.ToAddresses.len

\* C21 holds of the calls whose to-list has no spare capacity: append then
\* copies into an array of its own
C21_CallerEmailUnchangedIfClipped ==
    (InCall /\ ToListClipped) => C21_CallerEmailUnchanged

(***************************************************************************)
(* C22. When two SendEmail calls run concurrently on the same sender, in   *)
(* every interleaving neither call writes a memory cell that the other     *)
(* reads or writes, also when their Emails share address slices with spare *)
(* capacity, and each call returns the result and hands the provider the   *)
(* request that it returns and hands over when it runs alone.              *)
(***************************************************************************)
\* call i has written a cell that call j has read or written
Interferes(i, j) == calls[i].writes \cap (calls[j].reads \cup calls[j].writes) # {}

\* SendEmail of call i run alone up to its provider call, on the memory as it
\* was when the calls were made
AloneBegin(i) ==
    IF calls[i].sender = "awsses"
    THEN AWSSESSender_SendEmail_begin(calls[i].email, StringsOf(heap0))
    ELSE GmailSender_SendEmail_begin(calls[i].email, StringsOf(heap0))

\* the result of call i run alone, the provider answering as it answered
AloneResult(i) ==
    IF AloneBegin(i).pc = "returned" THEN AloneBegin(i).result
    ELSE IF calls[i].sender = "awsses" THEN AWSSESSender_SendEmail_end(calls[i].rpcErr).result
    ELSE GmailSender_SendEmail_end(calls[i].rpcErr).result

\* call i has built its request or returned
Settled(i) == calls[i].done \/ calls[i].request # Nil

SameAsAlone(i) ==
    /\ Settled(i) => calls[i].request = AloneBegin(i).request
    /\ calls[i].done => calls[i].result = AloneResult(i)

C22_NoInterference ==
    /\ ~Interferes(1, 2)
    /\ ~Interferes(2, 1)
    /\ \A i \in 1..2 : SameAsAlone(i)

\* a call that has run while the other has not taken a step comes to what
\* SendEmail run alone comes to
RunsFirstAsAlone ==
    \A i \in 1..2 : calls[3 - i].at = 1 => SameAsAlone(i)

\* C22 holds of the calls whose to-lists have no spare capacity
C22_NoInterferenceIfClipped ==
    (\A i \in 1..2 : calls[i].email.ToAddresses.cap = calls[i].email.ToAddresses.len)
        => C22_NoInterference

(***************************************************************************)
(* C23. The address "a@b" passes the cloud adapter's heuristic address     *)
(* check: an Email whose from-address or recipient is "a@b" is not         *)
(* rejected with INVALID_EMAIL by the cloud adapter's validator.           *)
(***************************************************************************)
\* the from-address or a recipient is "a@b", and every other address of the
\* Email is well formed
HoldsNoDotAddr ==
    /\ email.FromAddress \in { NoDotAddr, ValidAddr }
    /\ \A i \in 1..Len(Recipients0) : Recipients0[i] \in { NoDotAddr, ValidAddr }
    /\ \/ email.FromAddress = NoDotAddr
       \/ \E i \in 1..Len(Recipients0) : Recipients0[i] = NoDotAddr

RejectedAsInvalidEmail ==
    /\ pc = "returned"
    /\ rpcCount = 0
    /\ IsEmailError(result)
    /\ result.Reason = REASON_INVALID_EMAIL

\* the claim as stated
C23_NoDotAddressPasses ==
    (InCall /\ adapter = "awsses" /\ HoldsNoDotAddr) => ~RejectedAsInvalidEmail

\* C23 as amended: "a@b" fails the cloud adapter's check, which asks for a
\* "." as well as an "@".  An Email whose from-address is "a@b" is rejected
\* with INVALID_EMAIL, and so is an Email whose from-address passes the check
\* and that has "a@b" among its recipients, its to-list having no spare
\* capacity.
C23_NoDotAddressRejected ==
    (InCall /\ adapter = "awsses") =>
        /\ email.FromAddress = NoDotAddr =>
              /\ RejectedAsInvalidEmail
              /\ result.Message = "invalid from address format"
        /\ ( /\ isValidEmailAddress(email.FromAddress)
             /\ ToListClipped
             /\ \E i \in 1..Len(Recipients0) : Recipients0[i] = NoDotAddr )
           => /\ RejectedAsInvalidEmail
              /\ HasPrefix(result.Message, "invalid recipient address: ")

\* "a@b" is the only address that fails, and it is a recipient
C23_Witness ==
    /\ adapter = "awsses"
    /\ HoldsNoDotAddr
    /\ email.FromAddress = ValidAddr
    /\ email.Subject # ""
    /\ email.TextBody # ""
    /\ RejectedAsInvalidEmail
    /\ result.Message = "invalid recipient address: a@b"

\* "a@b" is the from-address
C23_WitnessFrom ==
    /\ adapter = "awsses"
    /\ email.FromAddress = NoDotAddr
    /\ RejectedAsInvalidEmail

(***************************************************************************)
(* C24. For every valid Email sent through the cloud adapter the request   *)
(* handed to the provider carries exactly len(Attachments) attachments in  *)
(* input order, the i-th with the file name, content type, description and *)
(* content bytes of the i-th input attachment and the disposition          *)
(* "attachment"; an empty attachment list yields zero attachments.         *)
(***************************************************************************)
\* the call is on the cloud adapter and has handed its request over
CloudRequest == InCall /\ adapter = "awsses" /\ request # Nil

C24_CloudRequestAttachments ==
    /\ (InCall /\ adapter = "awsses" /\ PassesValidation) => request # Nil
    /\ CloudRequest =>
          LET sent == request.Content.Simple.Attachments
              atts == email.Attachments
          IN  /\ Len(sent) = Len(atts)
              /\ DOMAIN sent = 1..Len(atts)
              /\ \A i \in 1..Len(atts) :
                    /\ sent[i].FileName = atts[i].FileName
                    /\ sent[i].ContentType = atts[i].ContentType
                    /\ sent[i].ContentDescription = atts[i].Description
                    /\ sent[i].RawContent = atts[i].Content
                    /\ sent[i].ContentDisposition = "ATTACHMENT"

\* two attachments that differ, the binary one first
C24_Witness ==
    /\ CloudRequest
    /\ Len(email.Attachments) = 2
    /\ email.Attachments[1].FileName = "data.bin"
    /\ email.Attachments[2].FileName = "test.txt"
    /\ request.Content.Simple.Attachments[1].RawContent = << 255, 254, 10, 13 >>
    /\ request.Content.Simple.Attachments[2].ContentDescription = "Test file"

\* no attachment
C24_WitnessNone ==
    /\ CloudRequest
    /\ Len(email.ReplyToAddresses) > 0
    /\ request.Content.Simple.Attachments = << >>

(***************************************************************************)
(* C25. For every valid Email sent through the cloud adapter the request's *)
(* from-address, to, cc and bcc lists and reply-to list are the Email's,   *)
(* the subject is a content object of charset UTF-8 holding the Email's    *)
(* subject, and the HTML (the text) content object is absent exactly when  *)
(* HTMLBody (TextBody) is empty and else holds that body with charset      *)
(* UTF-8.                                                                  *)
(***************************************************************************)
\* the content object of a body: none for the empty body
ContentOf(body) == IF body = "" THEN Nil ELSE [Data |-> body, Charset |-> "UTF-8"]

C25_WitnessReplyTo ==
    /\ CloudRequest
    /\ request.Content.Simple.Body.Text = Nil
    /\ request.Content.Simple.Body.Html = [Data |-> "<p>Hello</p>", Charset |-> "UTF-8"]
    /\ request.ReplyToAddresses = << "r@y.z" >>

(***************************************************************************)
(* C26. In a sequence of SendEmail calls on one sender of either adapter,  *)
(* the result of a call and the request it hands to the provider depend    *)
(* only on the call's Email and on the provider's answer to the call: two  *)
(* calls of the sequence with equal Email (the same fields, the same       *)
(* address lists) and the same answer have the same result and hand over   *)
(* the same request, whatever the calls before and between them were and   *)
(* whatever the spare capacity behind the to-list held.                    *)
(***************************************************************************)
\* calls i and j of the sequence were made with equal Emails
SameEmail(i, j) ==
    /\ history[i].email = history[j].email
    /\ history[i].to = history[j].to
    /\ history[i].cc = history[j].cc
    /\ history[i].bcc = history[j].bcc

\* the provider gave calls i and j the same answer, or was asked by neither
SameAnswer(i, j) ==
    /\ history[i].asked = history[j].asked
    /\ history[i].answer = history[j].answer

C26_WitnessAfterFailure ==
    /\ Len(history) = 2
    /\ history[1].asked = 0 /\ history[1].result # Nil
    /\ history[2].asked = 1 /\ history[2].result = Nil

\* the provider refused a call, then took a call with the same Email
C26_WitnessOtherAnswer ==
    /\ Len(history) = 2
    /\ SameEmail(1, 2)
    /\ history[1].answer # Nil /\ history[2].asked = 1 /\ history[2].answer = Nil
    /\ history[1].result # Nil /\ history[2].result = Nil

(***************************************************************************)
(* C27. Neither validator looks at ReplyToAddresses: an Email that passes  *)
(* the six checks goes to the provider in exactly one call whatever its    *)
(* reply-to list holds (empty strings and strings that fail the adapter's  *)
(* address check included), and the strings reach the provider as they     *)
(* are: the cloud request's reply-to list is the Email's, the webmail      *)
(* message has one Reply-To header holding the strings joined by ", " (no  *)
(* such header for an empty list).  The request is read at the provider   *)
(* call, the moment it is handed over.                                     *)
(***************************************************************************)
\* the reply-to strings as the provider is to get them
PassedReplyTo ==
    IF adapter = "awsses" THEN email.ReplyToAddresses
    ELSE IF Len(email.ReplyToAddresses) > 0
    THEN << CommaJoined(email.ReplyToAddresses) >>
    ELSE << >>

\* the reply-to strings the provider is handed
HandedReplyTo ==
    IF adapter = "awsses" THEN request.ReplyToAddresses
    ELSE HeaderValues(Read(request.message).headers, "Reply-To")

C27_ReplyToNotValidated ==
    (InCall /\ FirstFailingCheck = 0) =>
        /\ \/ pc = "rpc" /\ rpcCount = 0
           \/ pc = "returned" /\ rpcCount = 1
        /\ request # Nil
        /\ pc = "rpc" => HandedReplyTo = PassedReplyTo

\* a cloud call that was sent with an empty string and a string without
\* "@" as its reply-to list
C27_Witness ==
    /\ adapter = "awsses"
    /\ pc = "returned"
    /\ rpcCount = 1
    /\ email.ReplyToAddresses = << "", "invalid-email" >>
    /\ ~isValidEmailAddress(email.ReplyToAddresses[2])
    /\ request.ReplyToAddresses = << "", "invalid-email" >>

\* the same list in a webmail message
C27_WitnessGmail ==
    /\ adapter = "gmail"
    /\ pc = "returned"
    /\ rpcCount = 1
    /\ email.ReplyToAddresses = << "", "invalid-email" >>
    /\ ~ParseAddressOK(email.ReplyToAddresses[2])
    /\ HandedReplyTo = << ", invalid-email" >>

\* no reply-to list, no Reply-To header
C27_WitnessNone ==
    /\ adapter = "gmail"
    /\ pc = "rpc"
    /\ email.ReplyToAddresses = << >>
    /\ HandedReplyTo = << >>

(***************************************************************************)
(* C28. For every Email that passes validation, with or without            *)
(* attachments and for each of the three body shapes, the top-level header *)
(* block of the webmail message holds exactly one Content-Type header, at  *)
(* the place it was written after the address headers.  With attachments   *)
(* that header is the multipart/mixed one, which took the place of the one *)
(* chosen for the body, and no header was appended; without attachments it *)
(* is the one chosen for the body.                                         *)
(***************************************************************************)
\* the Content-Type the builder chooses for the body of the Email
BodyContentType ==
    IF BothBodies THEN "multipart/alternative; boundary=" \o AlternativeBoundary
    ELSE IF email.HTMLBody # "" THEN "text/html; charset=utf-8"
    ELSE "text/plain; charset=utf-8"

\* the places of the Content-Type headers in the header block of a message
ContentTypePlaces(message) ==
    LET h == Read(message).headers
    IN  { i \in 1..Len(h) : HeaderName(h[i]) = "Content-Type" }

C28_OneContentType ==
    Built =>
        LET h == Read(built[1]).headers
        IN  /\ ContentTypePlaces(built[1]) = { Len(HeaderNamesOf(email)) }
            /\ Len(h) = Len(HeaderNamesOf(email)) + (IF BothBodies THEN 0 ELSE 1)
            /\ HeaderValues(h, "Content-Type") =
                   << IF Attached THEN "multipart/mixed; boundary=" \o MixedBoundary
                      ELSE BodyContentType >>

\* attachments under both bodies: the multipart/alternative header gave way
C28_Witness ==
    /\ Built
    /\ Attached
    /\ BothBodies
    /\ Len(email.ReplyToAddresses) > 0
    /\ Read(built[1]).headers[Len(HeaderNamesOf(email))]
          = "Content-Type: multipart/mixed; boundary=mixed_boundary_123456789"
    /\ \A i \in 1..Len(Read(built[1]).headers) :
          ~Contains(Read(built[1]).headers[i], "multipart/alternative")

\* attachments under an HTML body
C28_WitnessHTML ==
    /\ Built
    /\ Attached
    /\ email.HTMLBody # "" /\ email.TextBody = ""
    /\ HeaderValues(Read(built[1]).headers, "Content-Type")
          = << "multipart/mixed; boundary=mixed_boundary_123456789" >>

\* no attachment, a text body
C28_WitnessPlain ==
    /\ Built
    /\ ~Attached
    /\ email.HTMLBody = ""
    /\ ContentTypePlaces(built[1]) = { 5 }
    /\ HeaderValues(Read(built[1]).headers, "Content-Type") = << "text/plain; charset=utf-8" >>

(***************************************************************************)
(* C29. In every multipart/mixed message the webmail adapter builds, the   *)
(* first part is declared Content-Type: text/plain; charset=utf-8 with     *)
(* Content-Transfer-Encoding: 8bit whatever body was chosen: the lines of  *)
(* an HTML-only body follow that declaration, and for an Email with both   *)
(* bodies the lines of the multipart/alternative body text follow it,      *)
(* while no header of the message, top-level or of a part, declares the    *)
(* alternative boundary.                                                   *)
(***************************************************************************)
\* the lines of the multipart/alternative body text of the Email
AlternativeLines ==
    << "", "--" \o AlternativeBoundary >> \o PlainPartHeaders \o << "" >>
    \o TextLines(email.TextBody)
    \o << "", "--" \o AlternativeBoundary >> \o HTMLPartHeaders \o << "" >>
    \o TextLines(email.HTMLBody)
    \o << "", "--" \o AlternativeBoundary \o "--" >>

\* the lines of the body the builder chose for the Email
ChosenBodyLines ==
    IF BothBodies THEN AlternativeLines
    ELSE IF email.HTMLBody # "" THEN TextLines(email.HTMLBody)
    ELSE TextLines(email.TextBody)

\* a header line that declares the alternative boundary
DeclaresAlternative(line) == Contains(line, "boundary=" \o AlternativeBoundary)

C29_FirstPartDeclaredPlain ==
    (Built /\ Attached) =>
        LET r == Read(built[1])
            p == Parts(r.body, MixedBoundary)
            n == Len(ChosenBodyLines)
        IN  /\ Len(p.parts) >= 1
            /\ p.parts[1].headers = PlainPartHeaders
            /\ Len(r.body) >= 4 + n
            /\ SubSeq(r.body, 1, 4) = << "--" \o MixedBoundary >> \o PlainPartHeaders \o << "" >>
            /\ SubSeq(r.body, 5, 4 + n) = ChosenBodyLines
            /\ ~BodySays(MixedBoundary) => p.parts[1].body = ChosenBodyLines
            /\ \A i \in 1..Len(r.headers) : ~DeclaresAlternative(r.headers[i])
            /\ \A k \in 1..Len(p.parts) : \A i \in 1..Len(p.parts[k].headers) :
                   ~DeclaresAlternative(p.parts[k].headers[i])

\* an HTML body alone under the text/plain declaration
C29_Witness ==
    /\ Built
    /\ Attached
    /\ email.HTMLBody = "<p>Hello</p>"
    /\ email.TextBody = ""
    /\ Parts(Read(built[1]).body, MixedBoundary).parts[1]
          = [ headers |-> << "Content-Type: text/plain; charset=utf-8",
                             "Content-Transfer-Encoding: 8bit" >>,
              body    |-> << "<p>Hello</p>" >> ]

\* both bodies: the alternative body text under the text/plain declaration
C29_WitnessBoth ==
    /\ Built
    /\ Attached
    /\ BothBodies
    /\ email.TextBody = "Hello"
    /\ Parts(Read(built[1]).body, MixedBoundary).parts[1].headers = PlainPartHeaders
    /\ Parts(Read(built[1]).body, MixedBoundary).parts[1].body
          = << "", "--boundary123456789",
               "Content-Type: text/plain; charset=utf-8", "Content-Transfer-Encoding: 8bit",
               "", "Hello", "", "--boundary123456789",
               "Content-Type: text/html; charset=utf-8", "Content-Transfer-Encoding: 8bit",
               "", "<p>Hello</p>", "", "--boundary123456789--" >>

\* a text body that holds the closing line of the mixed boundary
C29_WitnessDelimiter ==
    /\ Built
    /\ Attached
    /\ BodySays(MixedBoundary)
    /\ Parts(Read(built[1]).body, MixedBoundary).parts[1].headers = PlainPartHeaders
    /\ Parts(Read(built[1]).body, MixedBoundary).parts[1].body # ChosenBodyLines

(***************************************************************************)
(* C30. The webmail builder writes a top-level header                      *)
(* Content-Transfer-Encoding: 8bit right after Content-Type exactly when   *)
(* the Email has one body (HTML alone or text alone), and no such header   *)
(* when it has both; when an Email of one body has attachments as well,    *)
(* the header stays in the header block of the multipart/mixed message.    *)
(***************************************************************************)
\* the places of the Content-Transfer-Encoding headers in the header block
EncodingPlaces(message) ==
    LET h == Read(message).headers
    IN  { i \in 1..Len(h) : HeaderName(h[i]) = "Content-Transfer-Encoding" }

C30_TopLevelEncoding ==
    Built =>
        LET h  == Read(built[1]).headers
            ct == Len(HeaderNamesOf(email))
        IN  /\ BothBodies => EncodingPlaces(built[1]) = {}
            /\ ~BothBodies =>
                  /\ EncodingPlaces(built[1]) = { ct + 1 }
                  /\ Len(h) = ct + 1
                  /\ HeaderName(h[ct]) = "Content-Type"
                  /\ h[ct + 1] = "Content-Transfer-Encoding: 8bit"
            /\ (Attached /\ ~BothBodies) =>
                  /\ h[ct] = "Content-Type: multipart/mixed; boundary=" \o MixedBoundary
                  /\ h[ct + 1] = "Content-Transfer-Encoding: 8bit"

\* an HTML body and attachments: the header stays under multipart/mixed
C30_Witness ==
    /\ Built
    /\ Attached
    /\ email.HTMLBody # "" /\ email.TextBody = ""
    /\ Read(built[1]).headers =
          << "From: x@y.z", "To: x@y.z", "Subject: Test", "MIME-Version: 1.0",
             "Content-Type: multipart/mixed; boundary=mixed_boundary_123456789",
             "Content-Transfer-Encoding: 8bit" >>

\* both bodies, with and without attachments: no such header
C30_WitnessBoth ==
    /\ Built
    /\ BothBodies
    /\ Attached
    /\ EncodingPlaces(built[1]) = {}
    /\ Len(Read(built[1]).headers) = Len(HeaderNamesOf(email))

C30_WitnessBothAlone ==
    /\ Built
    /\ BothBodies
    /\ ~Attached
    /\ EncodingPlaces(built[1]) = {}

\* a text body alone, no attachment, after a Reply-To header
C30_WitnessText ==
    /\ Built
    /\ ~Attached
    /\ email.HTMLBody = "" /\ email.TextBody # ""
    /\ Len(email.ReplyToAddresses) > 0
    /\ EncodingPlaces(built[1]) = { Len(HeaderNamesOf(email)) + 1 }

====
